---- MODULE Spec2Model ----
(***************************************************************************)
(* Reminder cog of the SSEF bot (src/cogs/reminder/__init__.py).           *)
(*                                                                         *)
(* The cog keeps an in-memory map  channel id -> set of ReminderInfo,      *)
(* mirrors it into the "Reminder" collection and runs a periodic sweep.    *)
(* All handlers are coroutines on one event loop: a handler runs without   *)
(* interruption from one await to the next, and other handlers run while   *)
(* it is suspended.  Every action below is one such uninterrupted region.  *)
(***************************************************************************)
EXTENDS Integers, Sequences, FiniteSets, TLC

(* ------------------------------ bounds --------------------------------- *)
Users == {1, 2}
Channels == {1, 2}
Guilds == {9}
MaxMsgs == 3
MaxEchoes == 1
MaxEvents == 2
MaxInFlight == 2

(* Identifiers are time ordered: an id holds the minute it was made in and *)
(* a sequence number below IdScale.                                        *)
IdScale == MaxMsgs + 1

VARIABLES
  now,        \* utcnow(), in minutes
  msgCount,   \* messages created so far (sequence part of the next id)
  events,     \* what came in so far: commands, messages, changes of channels and statuses, minutes
  chanState,  \* per channel: "cached" (get_channel returns it) or "deleted" (get_channel is None)
  chanLast,   \* channel.last_message_id, 0 for None
  offline,    \* per user: str(member.status) == "offline"
  entries,    \* self.info_channels as the dict's entry array: keys in insertion order, 0 for a removed entry
  mem,        \* the set stored under each key: per user the ReminderInfo or NoInfo
  store,      \* the Reminder collection: per (user, channel) the document or NoInfo
  sweep,      \* the tasks.loop coroutine Reminder.check
  om,         \* one running Reminder.on_message
  rs,         \* one running Reminder.remind_set
  rc,         \* one running Reminder.remind_clear
  delivered,  \* history: a notification was delivered for (user, channel) since its last message update
  characters, \* the Characters collection: its documents in insertion (cursor) order
  oid,        \* ObjectIds generated so far by insert_one
  charOutcome, \* what the last character command or resolution ended with
  modal,      \* the UpdateCharacterModal sent last and the Character it holds
  rn,         \* one running Submission.name, between its resolution and its update_one
  shown,      \* a name and a description text, and the display_name computed from them
  offered     \* the last call of CharacterTransformer.autocomplete and what it returned

\* the state of the Submission cog and of the character resolver
charVars == <<characters, oid, charOutcome>>

\* the state of the edit commands of the Submission cog
editVars == <<modal, rn>>

\* what the listings show
viewVars == <<shown, offered>>

vars == <<now, msgCount, events, chanState, chanLast, offline, entries, mem, store, sweep, om, rs, rc, delivered,
          characters, oid, charOutcome, modal, rn, shown, offered>>

Keys == Users \X Channels

ServerOf(c) == CHOOSE g \in Guilds : TRUE

(* --------------------------- ReminderInfo ------------------------------ *)
NoInfo ==
  [user_id |-> 0, channel_id |-> 0, server_id |-> 0,
   cooldown_time |-> 0, last_message_id |-> 0, notified_already |-> FALSE]

ReminderInfo(u, c, cooldown, last, notified) ==
  [user_id |-> u, channel_id |-> c, server_id |-> ServerOf(c),
   cooldown_time |-> cooldown, last_message_id |-> last, notified_already |-> notified]

snowflake_time(id) == id \div IdScale

time_snowflake(t) == t * IdScale

\* expired() with the deadline itself excluded
expired_strict(info) ==
  /\ info.last_message_id # 0
  /\ info.cooldown_time # 0
  /\ snowflake_time(info.last_message_id) + info.cooldown_time < now

expired(info) ==
  /\ info.last_message_id # 0
  /\ info.cooldown_time # 0
  /\ snowflake_time(info.last_message_id) + info.cooldown_time <= now

DEFINITIONS ==
  [t \in {"None", "1m", "5m", "15m", "30m", "1h", "3h", "6h", "12h", "24h", "48h", "1w"} |->
     CASE t = "None" -> 0
       [] t = "1m" -> 1
       [] t = "5m" -> 5
       [] t = "15m" -> 15
       [] t = "30m" -> 30
       [] t = "1h" -> 60
       [] t = "3h" -> 3 * 60
       [] t = "6h" -> 6 * 60
       [] t = "12h" -> 12 * 60
       [] t = "24h" -> 24 * 60
       [] t = "48h" -> 2 * 24 * 60
       [] t = "1w" -> 7 * 24 * 60]

\* the presets the commands are issued with
Times == {"None", "5m"}

(* ------------------------ the map and its sets -------------------------- *)
EmptySet == [u \in Users |-> NoInfo]

HasKey(c) == \E i \in DOMAIN entries : entries[i] = c

Used == Cardinality({i \in DOMAIN entries : entries[i] # 0})

SetSize(c) == Cardinality({u \in Users : mem[c][u] # NoInfo})

Min(S) == CHOOSE x \in S : \A y \in S : x <= y

\* dict.setdefault(c, set()) on an entry array
SetDefault(e, c) == IF \E i \in DOMAIN e : e[i] = c THEN e ELSE Append(e, c)

\* dict.pop(c, None) on an entry array
Pop(e, c) == [i \in DOMAIN e |-> IF e[i] = c THEN 0 ELSE e[i]]

(* --------------------------- handlers' frames --------------------------- *)
SweepIdle ==
  [pc |-> "idle", di_used |-> 0, di_len |-> 0, di_pos |-> 0, chan |-> 0,
   si_used |-> 0, si_pos |-> 0, user |-> 0, ref |-> 0, live |-> FALSE, fallback |-> FALSE]

SweepDead == [SweepIdle EXCEPT !.pc = "dead"]

OmIdle ==
  [pc |-> "idle", user |-> 0, chan |-> 0, msg |-> 0, command |-> FALSE, aux |-> 0,
   live |-> FALSE, messages |-> <<>>]

RsIdle ==
  [pc |-> "idle", user |-> 0, chan |-> 0, amount |-> 0, hadInfo |-> FALSE, setLive |-> FALSE,
   info |-> NoInfo]

RcIdle == [pc |-> "idle", user |-> 0, chan |-> 0]

\* the handler's local `info` no longer is the object in the map once that object was removed from it
DetachSweep(sw, removed) ==
  IF sw.pc \in {"fetch", "reply", "send", "react"} /\ <<sw.user, sw.chan>> \in removed
  THEN [sw EXCEPT !.live = FALSE] ELSE sw

DetachOm(h, removed) ==
  IF h.pc = "wait" /\ <<h.user, h.chan>> \in removed
  THEN [h EXCEPT !.live = FALSE] ELSE h

\* the handler's local `infos` no longer is the set in the map once its key was popped
DetachRs(h, c) ==
  IF h.pc = "find_one" /\ h.chan = c THEN [h EXCEPT !.setLive = FALSE] ELSE h

\* the coroutines that are suspended at an await
InFlight ==
  Cardinality({h \in {"sweep", "om", "rs", "rc"} :
     CASE h = "sweep" -> sweep.pc \notin {"idle", "dead"}
       [] h = "om" -> om.pc # "idle"
       [] h = "rs" -> rs.pc # "idle"
       [] h = "rc" -> rc.pc # "idle"})

(* ------------------------------ characters ------------------------------ *)
\* the most ObjectIds insert_one generates: the documents the collection holds at start
\* and those the create command adds
MaxChars == 2

\* texts are sequences of characters; the texts used as names and arguments
Spark == <<"S", "p", "a", "r", "k">>
Sprak == <<"S", "p", "r", "a", "k">>
Sparky == <<"S", "p", "a", "r", "k", "y">>
BoldSpark == <<"*", "*", "S", "p", "a", "r", "k", "*", "*">>
Zed == <<"Z", "e", "d">>
Jolteon == <<"J", "o", "l", "t", "e", "o", "n">>
LongName == Spark \o [i \in 1..6 |-> "y"]
LongTypo == SubSeq(LongName, 1, Len(LongName) - 1)

HexDigits == <<"0", "1", "2", "3", "4", "5", "6", "7", "8", "9", "a", "b", "c", "d", "e", "f">>

HexValue(ch) == (CHOOSE n \in DOMAIN HexDigits : HexDigits[n] = ch) - 1

\* str(ObjectId): 24 hexadecimal digits
IdLen == 24

IdLiteral(n) == [i \in 1..IdLen |-> IF i = IdLen THEN HexDigits[n + 1] ELSE "0"]

\* a name that reads as an identifier
HexName == IdLiteral(9)

\* ObjectId(argument), lines 122-125: the identifier, or -1 where it raises InvalidId
ObjectId(s) ==
  IF Len(s) = IdLen /\ \A i \in 1..IdLen : \E n \in DOMAIN HexDigits : HexDigits[n] = s[i]
  THEN 16 * HexValue(s[IdLen - 1]) + HexValue(s[IdLen])
  ELSE -1

\* discord.utils.remove_markdown: the markdown characters are dropped (the backquote,
\* which no text used here holds, is left out of the set)
MarkdownChars == {"_", "\\", "~", "|", "*"}

IsPlain(ch) == ch \notin MarkdownChars

remove_markdown(s) == SelectSeq(s, IsPlain)

\* name.split(ch)[0]
FirstPart(s, ch) ==
  LET at == {i \in DOMAIN s : s[i] = ch}
  IN IF at = {} THEN s ELSE SubSeq(s, 1, Min(at) - 1)

\* a description, as the matchers of lines 30-34 read it: the text after Name:, after
\* Species: (empty when the field is absent) and the number after Level: (-1 when absent)
Description(name, species, level) == [Name |-> name, Species |-> species, Level |-> level]

\* a document of the collection; has_server tells whether it has the key "server"
Document(id, u, name, description, server, has_server) ==
  [_id |-> id, user_id |-> u, name |-> name, description |-> description,
   server |-> server, has_server |-> has_server]

\* the largest number of a set
MaxOf(S) == CHOOSE x \in S : \A y \in S : y <= x

UpperLetters == <<"A", "B", "C", "D", "E", "F", "G", "H", "I", "J", "K", "L", "M",
                  "N", "O", "P", "Q", "R", "S", "T", "U", "V", "W", "X", "Y", "Z">>

LowerLetters == <<"a", "b", "c", "d", "e", "f", "g", "h", "i", "j", "k", "l", "m",
                  "n", "o", "p", "q", "r", "s", "t", "u", "v", "w", "x", "y", "z">>

\* str.lower of one character and of a text
lower_char(ch) ==
  IF \E i \in DOMAIN UpperLetters : UpperLetters[i] = ch
  THEN LowerLetters[CHOOSE i \in DOMAIN UpperLetters : UpperLetters[i] = ch]
  ELSE ch

lower(s) == [i \in DOMAIN s |-> lower_char(s[i])]

\* the characters \s matches and strip() removes: the blank and the line feed
Whitespace == {" ", "\n"}

IsDigit(ch) == \E i \in 1..10 : HexDigits[i] = ch

\* str.strip
strip(s) ==
  LET solid == {i \in DOMAIN s : s[i] \notin Whitespace}
  IN IF solid = {} THEN <<>> ELSE SubSeq(s, Min(solid), MaxOf(solid))

\* the number of whitespace characters in a row from position q on
RunLen(text, q) ==
  LET stops == {j \in q..Len(text) : text[j] \notin Whitespace}
  IN IF stops = {} THEN Len(text) - q + 1 ELSE Min(stops) - q

\* a group can begin at q: (\d+) with a digit, (.+) with any character but the line feed
CanStart(text, q, digits) ==
  q <= Len(text) /\ IF digits THEN IsDigit(text[q]) ELSE text[q] # "\n"

\* the pattern key\s*:\s*(group), case ignored, tried at position p: where the group
\* begins, 0 when the pattern does not match there. The second \s* is greedy and gives
\* back what the group needs
GroupStart(key, text, p, digits) ==
  LET n == Len(key)
      c == p + n + RunLen(text, p + n)
      taken == {k \in 0..RunLen(text, c + 1) : CanStart(text, c + 1 + k, digits)}
  IN IF ~(p + n - 1 <= Len(text) /\ \A i \in 1..n : lower_char(text[p + i - 1]) = key[i]) THEN 0
     ELSE IF ~(c <= Len(text) /\ text[c] = ":") THEN 0
     ELSE IF taken = {} THEN 0
     ELSE c + 1 + MaxOf(taken)

\* where the group that begins at q ends: with the digits, or with the line
GroupEnd(text, q, digits) ==
  LET ends == {j \in q..Len(text) : IF digits THEN ~IsDigit(text[j]) ELSE text[j] = "\n"}
  IN IF ends = {} THEN Len(text) ELSE Min(ends) - 1

\* matcher.search(text)[1] for the pattern of the key: the group of the first match in
\* the text, empty when there is no match
search(key, text, digits) ==
  LET found == {p \in DOMAIN text : GroupStart(key, text, p, digits) # 0}
      q == GroupStart(key, text, Min(found), digits)
  IN IF found = {} THEN <<>> ELSE SubSeq(text, q, GroupEnd(text, q, digits))

RECURSIVE int(_)
\* int() of a text of digits
int(s) == IF s = <<>> THEN 0 ELSE 10 * int(SubSeq(s, 1, Len(s) - 1)) + HexValue(s[Len(s)])

\* the three matchers of lines 30-34 applied to remove_markdown(description)
Fields(text) ==
  LET desc == remove_markdown(text)
      lvl == search(<<"l", "e", "v", "e", "l">>, desc, TRUE)
  IN Description(search(<<"n", "a", "m", "e">>, desc, FALSE),
                 search(<<"s", "p", "e", "c", "i", "e", "s">>, desc, FALSE),
                 IF lvl = <<>> THEN -1 ELSE int(lvl))

\* lines 68-74
oc_name(oc) ==
  LET name == IF oc.description.Name # <<>> THEN strip(oc.description.Name) ELSE oc.name
  IN remove_markdown(FirstPart(FirstPart(name, "."), ","))

\* the characters U+3019, U+300A and U+300B of display_name
RightBracket == "U+3019"

LeftAngle == "U+300A"

RightAngle == "U+300B"

Unknown == <<"U", "n", "k", "n", "o", "w", "n">>

\* the most characters display_name shows of a name or species
NameWidth == 20

\* s[:20] and "..." when s is longer
Truncated(s) == IF Len(s) > NameWidth THEN SubSeq(s, 1, NameWidth) \o <<".", ".", ".">> ELSE s

RECURSIVE Decimal(_)
\* str() of a natural number
Decimal(n) == IF n < 10 THEN <<HexDigits[n + 1]>> ELSE Decimal(n \div 10) \o <<HexDigits[(n % 10) + 1]>>

\* f"{lvl}": the number without padding
Padded_unpadded(lvl) == Decimal(lvl)

\* f"{lvl:03d}"
Padded(lvl) ==
  LET d == Decimal(lvl)
  IN IF Len(d) >= 3 THEN d ELSE [i \in 1..(3 - Len(d)) |-> "0"] \o d

\* lines 76-95
display_name(oc) ==
  LET d == oc.description
      name == IF d.Name # <<>> THEN strip(d.Name) ELSE oc.name
      mon == FirstPart(FirstPart(strip(d.Species), "."), ",")
      species == IF d.Species # <<>> THEN <<LeftAngle>> \o Truncated(mon) \o <<RightAngle>>
                 ELSE <<LeftAngle>> \o Unknown \o <<RightAngle>>
      lvl == IF d.Level # -1 THEN d.Level ELSE 0
  IN remove_markdown(Padded(lvl) \o <<RightBracket>> \o Truncated(name) \o species)

Max2(x, y) == IF x >= y THEN x ELSE y

RECURSIVE LcsCells(_, _, _, _, _, _)
\* the row of a[1..i]: cur[j] is the length of the longest common subsequence of a[1..i]
\* and b[1..j]; prev is the row of a[1..i-1], cur the cells before j
LcsCells(a, b, prev, i, j, cur) ==
  IF j > Len(b) THEN cur
  ELSE LET left == IF j = 1 THEN 0 ELSE cur[j - 1]
           diag == IF j = 1 THEN 0 ELSE prev[j - 1]
           cell == IF a[i] = b[j] THEN diag + 1 ELSE Max2(prev[j], left)
           next == Append(cur, cell)
       IN IF Len(next) = j THEN LcsCells(a, b, prev, i, j + 1, next) ELSE next

RECURSIVE LcsRow(_, _, _)
LcsRow(a, b, i) ==
  IF i = 0 THEN [j \in 1..Len(b) |-> 0]
  ELSE LET prev == LcsRow(a, b, i - 1)
       IN IF Len(prev) = Len(b) THEN LcsCells(a, b, prev, i, 1, <<>>) ELSE prev

\* the length of the prefix the two texts share
CommonPrefix(a, b) ==
  LET short == IF Len(a) <= Len(b) THEN Len(a) ELSE Len(b)
      same == {k \in 0..short : \A i \in 1..k : a[i] = b[i]}
  IN CHOOSE k \in same : \A l \in same : l <= k

\* the length of the longest common subsequence: the shared prefix, then the rest
Lcs(a, b) ==
  LET p == CommonPrefix(a, b)
      ra == SubSeq(a, p + 1, Len(a))
      rb == SubSeq(b, p + 1, Len(b))
  IN IF ra = <<>> \/ rb = <<>> THEN p ELSE p + LcsRow(ra, rb, Len(ra))[Len(rb)]

\* rapidfuzz's WRatio of two texts of one word each, as a fraction num / den of 100:
\* the normalized Indel similarity 2 * lcs / (len + len); 0 when a text is empty
Score(a, b) ==
  IF a = <<>> \/ b = <<>> THEN [num |-> 0, den |-> 1]
  ELSE [num |-> 200 * Lcs(a, b), den |-> Len(a) + Len(b)]

\* score >= cutoff
Clears(sc, cutoff) == sc.num >= cutoff * sc.den

\* score of x > score of y
Better(x, y) == x.num * y.den > y.num * x.den

\* process.extractOne(query, choices, score_cutoff=cutoff): the index of the first
\* choice of best score among those that clear the cutoff, 0 when there is none
extractOne(query, choices, cutoff) ==
  LET ok == {i \in DOMAIN choices : Clears(Score(query, choices[i]), cutoff)}
      best == {i \in ok : \A j \in ok : ~Better(Score(query, choices[j]), Score(query, choices[i]))}
  IN IF ok = {} THEN 0 ELSE Min(best)

\* what a resolution ends with: a Character, or an exception
Result(kind, id, stage) == [kind |-> kind, id |-> id, stage |-> stage]

\* cls(**doc), lines 128, 130: Character has the fields _id, user_id, name, description
\* only, so a document with any other key raises TypeError
Constructs(doc) == ~doc.has_server

\* the documents of a user, from a cursor that resumes after the document returned last
Own_rotated(u) ==
  LET ocs == SelectSeq(characters, LAMBDA d : d.user_id = u)
  IN IF Len(ocs) > 1 /\ ocs[1]._id = charOutcome.id THEN Tail(ocs) \o <<Head(ocs)>> ELSE ocs

\* the documents of a user, in cursor order
Own(u) == SelectSeq(characters, LAMBDA d : d.user_id = u)

\* lines 120-143 (by_oc_name) and 151-174: the resolution of argument for the user
Resolve(u, argument, by_oc_name) ==
  LET id == ObjectId(argument)
      stage == IF id # -1 THEN "id" ELSE "name"
      hits == {i \in DOMAIN characters :
                 /\ characters[i].user_id = u
                 /\ IF id # -1 THEN characters[i]._id = id
                    ELSE characters[i].name = remove_markdown(argument)}
      ocs == Own(u)
      texts == [i \in DOMAIN ocs |-> IF by_oc_name THEN oc_name(ocs[i]) ELSE ocs[i].name]
      found == extractOne(argument, texts, 95)
  IN IF hits # {}
     THEN LET doc == characters[Min(hits)]
          IN IF Constructs(doc) THEN Result("Character", doc._id, stage)
             ELSE Result("TypeError", 0, stage)
     ELSE IF \E i \in DOMAIN ocs : ~Constructs(ocs[i]) THEN Result("TypeError", 0, "fuzzy")
     ELSE IF ocs = <<>> THEN Result("BadArgument", 0, "You have no characters")
     ELSE IF found # 0 THEN Result("Character", ocs[found]._id, "fuzzy")
     ELSE Result("BadArgument", 0, "not found")

\* Character.converter, lines 97-143
converter(u, argument) == Resolve(u, argument, TRUE)

\* CharacterTransformer.transform, lines 147-174
transform(u, argument) == Resolve(u, argument, FALSE)

\* a Character value, lines 37-42
Character(id, u, name, description) == [_id |-> id, user_id |-> u, name |-> name, description |-> description]

\* no UpdateCharacterModal was sent
NoModal == [pc |-> "none", user |-> 0, character |-> Character(0, 0, <<>>, <<>>)]

\* no Submission.name is running
RnIdle == [pc |-> "idle", user |-> 0, guild |-> 0, id |-> 0, name |-> <<>>]

\* no display_name has been computed
NoShown == [name |-> <<>>, text |-> <<>>, display |-> <<>>, done |-> FALSE]

\* autocomplete has not been called
NoChoices == [user |-> 0, value |-> <<>>, kind |-> "none", items |-> <<>>]

\* nothing has been resolved or submitted yet
NoOutcome == [op |-> "none", user |-> 0, arg |-> <<>>, kind |-> "none", id |-> 0, stage |-> "none"]

Outcome(op, u, arg, r) ==
  [op |-> op, user |-> u, arg |-> arg, kind |-> r.kind, id |-> r.id, stage |-> r.stage]

(* -------------------------------- Init ---------------------------------- *)
\* a reminder left in the collection by an earlier run: armed, last message in minute 0
\* the reminders the collection holds at start
InitKeys == {<<1, 1>>, <<1, 2>>}

StoredDoc(u, c) == ReminderInfo(u, c, DEFINITIONS["1m"], 1, FALSE)

Init ==
  /\ now = 1
  /\ msgCount = 0
  /\ events = 0
  /\ chanState = [c \in Channels |-> "cached"]
  /\ chanLast = [c \in Channels |-> 0]
  /\ offline = [u \in Users |-> FALSE]
  /\ entries = <<>>
  /\ mem = [c \in Channels |-> EmptySet]
  /\ store = [k \in Keys |-> IF k \in InitKeys THEN StoredDoc(k[1], k[2]) ELSE NoInfo]
  /\ sweep = SweepIdle
  /\ om = OmIdle
  /\ rs = RsIdle
  /\ rc = RcIdle
  /\ delivered = [k \in Keys |-> FALSE]
  /\ characters = <<>>
  /\ oid = 0
  /\ charOutcome = NoOutcome
  /\ modal = NoModal
  /\ rn = RnIdle
  /\ shown = NoShown
  /\ offered = NoChoices

(* ----------------------------- environment ------------------------------ *)
\* a minute passes
Tick ==
  /\ events < MaxEvents
  /\ events' = events + 1
  /\ now' = now + 1
  /\ UNCHANGED <<msgCount, chanState, chanLast, offline, entries, mem, store, sweep, om, rs, rc, delivered>>
  /\ UNCHANGED charVars
  /\ UNCHANGED editVars
  /\ UNCHANGED viewVars

\* the channel is deleted on the platform
DeleteChannel(c) ==
  /\ events < MaxEvents
  /\ events' = events + 1
  /\ chanState[c] # "deleted"
  /\ chanState' = [chanState EXCEPT ![c] = "deleted"]
  /\ UNCHANGED <<now, msgCount, chanLast, offline, entries, mem, store, sweep, om, rs, rc, delivered>>
  /\ UNCHANGED charVars
  /\ UNCHANGED editVars
  /\ UNCHANGED viewVars

SetStatus(u) ==
  /\ events < MaxEvents
  /\ events' = events + 1
  /\ offline' = [offline EXCEPT ![u] = ~offline[u]]
  /\ UNCHANGED <<now, msgCount, chanState, chanLast, entries, mem, store, sweep, om, rs, rc, delivered>>
  /\ UNCHANGED charVars
  /\ UNCHANGED editVars
  /\ UNCHANGED viewVars

(* ------------------------------ on_ready -------------------------------- *)
\* the channels in the order in which the cursor returns their first document
CursorOrder == <<1, 2>>

RECURSIVE AddKeys(_, _)
\* self.info_channels.setdefault(data.channel_id, set()) for the documents in cursor order
AddKeys(e, order) ==
  IF order = <<>> THEN e
  ELSE LET c == Head(order)
       IN AddKeys(IF \E u \in Users : store[<<u, c>>] # NoInfo THEN SetDefault(e, c) ELSE e, Tail(order))

\* on_ready with the set chosen by the document's user_id instead of its channel_id
OnReady_by_user ==
  /\ entries' = AddKeys(entries, CursorOrder)
  /\ mem' = [c \in Channels |-> [u \in Users |-> IF mem[c][u] = NoInfo THEN store[<<c, u>>] ELSE mem[c][u]]]
  /\ <<entries', mem'>> # <<entries, mem>>
  /\ UNCHANGED <<now, msgCount, chanState, chanLast, offline, store, sweep, om, rs, rc, delivered, events>>
  /\ UNCHANGED charVars
  /\ UNCHANGED editVars
  /\ UNCHANGED viewVars

\* on_ready: every stored document is added to the set of its channel; set.add keeps an
\* element that is already there (ReminderInfo compares by user, channel and server)
OnReady ==
  /\ entries' = AddKeys(entries, CursorOrder)
  /\ mem' = [c \in Channels |-> [u \in Users |-> IF mem[c][u] = NoInfo THEN store[<<u, c>>] ELSE mem[c][u]]]
  /\ <<entries', mem'>> # <<entries, mem>>
  /\ UNCHANGED <<now, msgCount, chanState, chanLast, offline, store, sweep, om, rs, rc, delivered, events>>
  /\ UNCHANGED charVars
  /\ UNCHANGED editVars
  /\ UNCHANGED viewVars

(* ----------------------------- remind set ------------------------------- *)
\* remind set without the permission check of lines 386-395
RemindSet_unchecked(u, c, t, perm) ==
  /\ events < MaxEvents
  /\ events' = events + 1
  /\ rs.pc = "idle"
  /\ InFlight < MaxInFlight
  /\ chanState[c] # "deleted"
  /\ rs' = [RsIdle EXCEPT !.pc = "find_one", !.user = u, !.chan = c, !.amount = DEFINITIONS[t],
                          !.hadInfo = (mem[c][u] # NoInfo), !.setLive = HasKey(c)]
  /\ UNCHANGED <<now, msgCount, chanState, chanLast, offline, entries, mem, store, sweep, om, rc, delivered>>
  /\ UNCHANGED charVars
  /\ UNCHANGED editVars
  /\ UNCHANGED viewVars

\* lines 386-407: permission check, capture of `infos` and `info`, call of find_one
RemindSet(u, c, t, perm) ==
  /\ events < MaxEvents
  /\ events' = events + 1
  /\ rs.pc = "idle"
  /\ InFlight < MaxInFlight
  /\ chanState[c] # "deleted"
  /\ rs' = IF ~perm
           THEN [RsIdle EXCEPT !.pc = "denied"]
           ELSE [RsIdle EXCEPT !.pc = "find_one", !.user = u, !.chan = c, !.amount = DEFINITIONS[t],
                               !.hadInfo = (mem[c][u] # NoInfo), !.setLive = HasKey(c)]
  /\ UNCHANGED <<now, msgCount, chanState, chanLast, offline, entries, mem, store, sweep, om, rc, delivered>>
  /\ UNCHANGED charVars
  /\ UNCHANGED editVars
  /\ UNCHANGED viewVars

\* lines 392-395: the reply of the refusal has been sent
RemindSetDenied ==
  /\ rs.pc = "denied"
  /\ rs' = RsIdle
  /\ UNCHANGED <<now, msgCount, chanState, chanLast, offline, entries, mem, store, sweep, om, rc, delivered, events>>
  /\ UNCHANGED charVars
  /\ UNCHANGED editVars
  /\ UNCHANGED viewVars

\* lines 407-415: find_one returns; the new ReminderInfo is built from the stored
\* document (or from now) and put in the map; replace_one is called
RemindSetInstall ==
  /\ rs.pc = "find_one"
  /\ LET u == rs.user
         c == rs.chan
         doc == store[<<u, c>>]
         last == IF doc = NoInfo THEN time_snowflake(now) ELSE doc.last_message_id
         notified == IF doc = NoInfo THEN FALSE ELSE doc.notified_already
         info == ReminderInfo(u, c, rs.amount, last, notified)
         discards == rs.hadInfo /\ rs.setLive /\ mem[c][u] # NoInfo
         present == mem[c][u] # NoInfo /\ ~discards
     IN /\ entries' = SetDefault(entries, c)
        /\ mem' = [mem EXCEPT ![c][u] = IF present THEN @ ELSE info]
        /\ sweep' = DetachSweep(sweep, IF discards THEN {<<u, c>>} ELSE {})
        /\ om' = DetachOm(om, IF discards THEN {<<u, c>>} ELSE {})
        /\ rs' = [rs EXCEPT !.pc = "replace_one", !.info = info]
        /\ delivered' = [delivered EXCEPT ![<<u, c>>] = IF doc = NoInfo THEN FALSE ELSE @]
  /\ UNCHANGED <<now, msgCount, chanState, chanLast, offline, store, rc, events>>
  /\ UNCHANGED charVars
  /\ UNCHANGED editVars
  /\ UNCHANGED viewVars

\* lines 415-419: replace_one(query, asdict(info), upsert=True) has been applied
RemindSetReplaced ==
  /\ rs.pc = "replace_one"
  /\ store' = [store EXCEPT ![<<rs.user, rs.chan>>] = rs.info]
  /\ rs' = RsIdle
  /\ UNCHANGED <<now, msgCount, chanState, chanLast, offline, entries, mem, sweep, om, rc, delivered, events>>
  /\ UNCHANGED charVars
  /\ UNCHANGED editVars
  /\ UNCHANGED viewVars

(* ---------------------------- remind clear ------------------------------ *)
\* lines 437-444: the reminder is discarded from the set, delete_one is called
RemindClear(u, c) ==
  /\ events < MaxEvents
  /\ events' = events + 1
  /\ rc.pc = "idle"
  /\ InFlight < MaxInFlight
  /\ chanState[c] # "deleted"
  /\ mem' = [mem EXCEPT ![c][u] = NoInfo]
  /\ sweep' = DetachSweep(sweep, {<<u, c>>})
  /\ om' = DetachOm(om, {<<u, c>>})
  /\ rc' = [pc |-> "delete_one", user |-> u, chan |-> c]
  /\ delivered' = [delivered EXCEPT ![<<u, c>>] = FALSE]
  /\ UNCHANGED <<now, msgCount, chanState, chanLast, offline, entries, store, rs>>
  /\ UNCHANGED charVars
  /\ UNCHANGED editVars
  /\ UNCHANGED viewVars

\* lines 444-445: delete_one(query) has been applied
RemindClearDone ==
  /\ rc.pc = "delete_one"
  /\ store' = [store EXCEPT ![<<rc.user, rc.chan>>] = NoInfo]
  /\ rc' = RcIdle
  /\ UNCHANGED <<now, msgCount, chanState, chanLast, offline, entries, mem, sweep, om, rs, delivered, events>>
  /\ UNCHANGED charVars
  /\ UNCHANGED editVars
  /\ UNCHANGED viewVars

(* ------------------------------ the sweep ------------------------------- *)
\* reminder_check(channel): inner_check(item), lines 245-253
inner_check(c, item) ==
  IF item.last_message_id = chanLast[c] THEN FALSE
  ELSE IF offline[item.user_id] THEN FALSE
  ELSE ~item.notified_already /\ expired(item)

RECURSIVE NextChannel(_), NextInfo(_)
\* the next step of `for channel_id, infos in self.info_channels.items()`, lines 261-270,
\* run until the coroutine suspends: the dict iterator raises RuntimeError when the dict
\* changed size, or when it finds an entry after it has yielded as many as the dict had
NextChannel(sw) ==
  IF sw.di_used # Used THEN SweepDead
  ELSE LET rest == {i \in DOMAIN entries : i >= sw.di_pos /\ entries[i] # 0}
       IN IF rest = {} THEN SweepIdle
          ELSE IF sw.di_len = 0 THEN SweepDead
          ELSE LET i == Min(rest)
                   c == entries[i]
                   nx == [sw EXCEPT !.di_pos = i + 1, !.di_len = @ - 1, !.chan = c,
                                    !.si_used = SetSize(c), !.si_pos = 1,
                                    !.user = 0, !.ref = 0, !.live = FALSE, !.fallback = FALSE]
               IN IF chanState[c] = "cached" THEN NextInfo(nx)
                  ELSE [nx EXCEPT !.pc = "fetch_channel"]

\* the next step of `for info in filter(self.reminder_check(channel), infos)`, lines 270-273,
\* run until the coroutine suspends: the set iterator raises RuntimeError when the set
\* changed size
NextInfo(sw) ==
  IF sw.si_used # SetSize(sw.chan) THEN SweepDead
  ELSE LET rest == {u \in Users : u >= sw.si_pos /\ mem[sw.chan][u] # NoInfo}
       IN IF rest = {} THEN NextChannel(sw)
          ELSE LET u == Min(rest)
                   item == mem[sw.chan][u]
               IN IF inner_check(sw.chan, item)
                  THEN [sw EXCEPT !.pc = "fetch", !.si_pos = u + 1, !.user = u,
                                  !.ref = item.last_message_id, !.live = TRUE, !.fallback = FALSE]
                  ELSE NextInfo([sw EXCEPT !.si_pos = u + 1])

\* the id of the next message created
NewId == now * IdScale + msgCount + 1

\* tasks.loop(seconds=5) starts the next run of check
SweepStart ==
  /\ sweep.pc = "idle"
  /\ InFlight < MaxInFlight
  /\ sweep' = NextChannel([SweepIdle EXCEPT !.di_used = Used, !.di_len = Used, !.di_pos = 1])
  /\ sweep' # sweep
  /\ UNCHANGED <<now, msgCount, chanState, chanLast, offline, entries, mem, store, om, rs, rc, delivered, events>>
  /\ UNCHANGED charVars
  /\ UNCHANGED editVars
  /\ UNCHANGED viewVars

\* lines 263-268: fetch_channel raises NotFound (the map's key is popped and delete_many
\* called) or raises another HTTPException, which leaves the coroutine
SweepFetchChannel(outcome) ==
  /\ sweep.pc = "fetch_channel"
  /\ outcome \in {"NotFound", "HTTPException"}
  /\ CASE outcome = "NotFound" ->
            /\ entries' = Pop(entries, sweep.chan)
            /\ mem' = [mem EXCEPT ![sweep.chan] = EmptySet]
            /\ om' = DetachOm(om, Users \X {sweep.chan})
            /\ rs' = DetachRs(rs, sweep.chan)
            /\ delivered' = [k \in Keys |-> IF k[2] = sweep.chan THEN FALSE ELSE delivered[k]]
            /\ sweep' = [sweep EXCEPT !.pc = "delete_many"]
       [] OTHER ->
            /\ sweep' = SweepDead
            /\ UNCHANGED <<entries, mem, om, rs, delivered>>
  /\ UNCHANGED <<now, msgCount, chanState, chanLast, offline, store, rc, events>>
  /\ UNCHANGED charVars
  /\ UNCHANGED editVars
  /\ UNCHANGED viewVars

\* lines 267-268: delete_many({"channel_id": channel_id}) has been applied; continue
SweepDeleteMany ==
  /\ sweep.pc = "delete_many"
  /\ store' = [k \in Keys |-> IF k[2] = sweep.chan THEN NoInfo ELSE store[k]]
  /\ sweep' = NextChannel(sweep)
  /\ UNCHANGED <<now, msgCount, chanState, chanLast, offline, entries, mem, om, rs, rc, delivered, events>>
  /\ UNCHANGED charVars
  /\ UNCHANGED editVars
  /\ UNCHANGED viewVars

\* lines 272-273 and 279, 295: reference.fetch() returns the message, raises NotFound
\* (the fallback send is called) or raises Forbidden / another HTTPException (continue)
SweepFetch(outcome) ==
  /\ sweep.pc = "fetch"
  /\ outcome \in {"ok", "NotFound", "HTTPException"}
  /\ sweep' = CASE outcome = "ok" -> [sweep EXCEPT !.pc = "reply"]
                [] outcome = "NotFound" -> [sweep EXCEPT !.pc = "send", !.fallback = TRUE]
                [] OTHER -> NextInfo(sweep)
  /\ UNCHANGED <<now, msgCount, chanState, chanLast, offline, entries, mem, store, om, rs, rc, delivered, events>>
  /\ UNCHANGED charVars
  /\ UNCHANGED editVars
  /\ UNCHANGED viewVars

\* lines 274-278 and 279, 295: last.reply(...) delivers the notification, raises NotFound
\* (the fallback send is called) or raises Forbidden / another HTTPException (continue)
SweepReply(outcome) ==
  /\ sweep.pc = "reply"
  /\ outcome \in {"ok", "NotFound", "HTTPException"}
  /\ CASE outcome = "ok" ->
            /\ msgCount < MaxMsgs
            /\ msgCount' = msgCount + 1
            /\ chanLast' = [chanLast EXCEPT ![sweep.chan] = NewId]
            /\ delivered' = [delivered EXCEPT ![<<sweep.user, sweep.chan>>] = TRUE]
            /\ sweep' = [sweep EXCEPT !.pc = "react"]
       [] outcome = "NotFound" ->
            /\ sweep' = [sweep EXCEPT !.pc = "send", !.fallback = TRUE]
            /\ UNCHANGED <<msgCount, chanLast, delivered>>
       [] OTHER ->
            /\ sweep' = NextInfo(sweep)
            /\ UNCHANGED <<msgCount, chanLast, delivered>>
  /\ UNCHANGED <<now, chanState, offline, entries, mem, store, om, rs, rc, events>>
  /\ UNCHANGED charVars
  /\ UNCHANGED editVars
  /\ UNCHANGED viewVars

\* lines 279-294: channel.send(...) in the NotFound handler delivers the notification
\* or raises; an exception raised inside an except clause leaves the coroutine
SweepSend(outcome) ==
  /\ sweep.pc = "send"
  /\ outcome \in {"ok", "HTTPException"}
  /\ CASE outcome = "ok" ->
            /\ msgCount < MaxMsgs
            /\ msgCount' = msgCount + 1
            /\ chanLast' = [chanLast EXCEPT ![sweep.chan] = NewId]
            /\ delivered' = [delivered EXCEPT ![<<sweep.user, sweep.chan>>] = TRUE]
            /\ sweep' = [sweep EXCEPT !.pc = "react"]
       [] OTHER ->
            /\ sweep' = SweepDead
            /\ UNCHANGED <<msgCount, chanLast, delivered>>
  /\ UNCHANGED <<now, chanState, offline, entries, mem, store, om, rs, rc, events>>
  /\ UNCHANGED charVars
  /\ UNCHANGED editVars
  /\ UNCHANGED viewVars

\* lines 298-305: message.add_reaction returns (the flag is set on `info` and update_one
\* called) or raises, which leaves the coroutine
SweepReact(outcome) ==
  /\ sweep.pc = "react"
  /\ outcome \in {"ok", "HTTPException"}
  /\ CASE outcome = "ok" ->
            /\ mem' = IF sweep.live
                      THEN [mem EXCEPT ![sweep.chan][sweep.user].notified_already = TRUE]
                      ELSE mem
            /\ sweep' = [sweep EXCEPT !.pc = "update_one"]
       [] OTHER ->
            /\ sweep' = SweepDead
            /\ UNCHANGED mem
  /\ UNCHANGED <<now, msgCount, chanState, chanLast, offline, entries, store, om, rs, rc, delivered, events>>
  /\ UNCHANGED charVars
  /\ UNCHANGED editVars
  /\ UNCHANGED viewVars

\* lines 302-305: update_one({user_id, channel_id}, {$set: {notified_already: True}}) has
\* been applied to the matching document, if there is one
SweepUpdate ==
  /\ sweep.pc = "update_one"
  /\ LET k == <<sweep.user, sweep.chan>>
     IN store' = IF store[k] = NoInfo THEN store
                 ELSE [store EXCEPT ![k].notified_already = TRUE]
  /\ sweep' = NextInfo(sweep)
  /\ UNCHANGED <<now, msgCount, chanState, chanLast, offline, entries, mem, om, rs, rc, delivered, events>>
  /\ UNCHANGED charVars
  /\ UNCHANGED editVars
  /\ UNCHANGED viewVars

(* ----------------------------- on_message ------------------------------- *)
\* what a webhook message can look like next to the original: fuzz.WRatio of the two
\* texts, whether its text is contained in the original's, whether the attachments have
\* the same file names
EchoShapes ==
  {[ratio |-> 100, contained |-> TRUE, files |-> FALSE],
   [ratio |-> 60, contained |-> FALSE, files |-> TRUE],
   [ratio |-> 60, contained |-> FALSE, files |-> FALSE]}

\* fuzz.WRatio(text, message.content, score_cutoff=95): 0 below the cutoff
WRatio(m, cutoff) == IF m.ratio >= cutoff THEN m.ratio ELSE 0

\* lines 209-217
Matches(m) == WRatio(m, 95) # 0 \/ m.contained \/ m.files

\* lines 202-218: the matching webhook message of greatest id, else the message itself
AuxMessage(msg, messages) ==
  LET ids == {messages[i].id : i \in {j \in DOMAIN messages : Matches(messages[j])}}
  IN IF ids = {} THEN msg ELSE CHOOSE x \in ids : \A y \in ids : y <= x

\* `name in futures` on a generator: the generator is consumed up to and including the
\* first hit, and to its end when there is none
GenIn(name, g) ==
  LET hits == {i \in DOMAIN g : g[i] = name}
  IN IF hits = {} THEN [found |-> FALSE, rest |-> <<>>]
     ELSE [found |-> TRUE, rest |-> SubSeq(g, Min(hits) + 1, Len(g))]

\* lines 198-200: the handler returns without touching the reminder
EarlyReturn(done, messages) ==
  LET edit == GenIn("Edit", done)
  IN edit.found \/ ~(messages # <<>> \/ GenIn("Message", edit.rest).found)

\* the tasks asyncio.wait can report as done, in the order the set is iterated
DoneOrders ==
  {s \in UNION {[1..n -> {"Message", "Edit", "Delete"}] : n \in 1..2} :
     \A i, j \in DOMAIN s : s[i] = s[j] => i = j}

\* lines 153-174: the reminder of the author in this channel is looked up; without one,
\* or when the message invokes a command, the handler returns; else it starts to wait
Lookup(h) ==
  IF mem[h.chan][h.user] = NoInfo \/ h.command THEN OmIdle
  ELSE [h EXCEPT !.pc = "wait", !.live = TRUE]

\* a member posts a message in a guild channel: lines 134-151
OnMessage(u, c, pings, command) ==
  /\ om.pc = "idle"
  /\ InFlight < MaxInFlight
  /\ chanState[c] # "deleted"
  /\ events < MaxEvents
  /\ events' = events + 1
  /\ msgCount < MaxMsgs
  /\ msgCount' = msgCount + 1
  /\ chanLast' = [chanLast EXCEPT ![c] = NewId]
  /\ LET h == [OmIdle EXCEPT !.user = u, !.chan = c, !.msg = NewId, !.command = command]
     IN om' = IF pings THEN [h EXCEPT !.pc = "noping"] ELSE Lookup(h)
  /\ UNCHANGED <<now, chanState, offline, entries, mem, store, sweep, rs, rc, delivered>>
  /\ UNCHANGED charVars
  /\ UNCHANGED editVars
  /\ UNCHANGED viewVars

\* lines 148-151: the reply about the no ping role was sent, or raised
OnMessageReplied(outcome) ==
  /\ om.pc = "noping"
  /\ outcome \in {"ok", "HTTPException"}
  /\ om' = IF outcome = "ok" THEN Lookup(om) ELSE OmIdle
  /\ UNCHANGED <<now, msgCount, chanState, chanLast, offline, entries, mem, store, sweep, rs, rc, delivered, events>>
  /\ UNCHANGED charVars
  /\ UNCHANGED editVars
  /\ UNCHANGED viewVars

\* a webhook (the proxy of the author) posts a message in the channel of a waiting
\* handler; lines 169-172: the handler records it
WebhookMessage(c, shape) ==
  /\ chanState[c] # "deleted"
  /\ msgCount < MaxMsgs
  /\ shape \in EchoShapes
  /\ om.pc = "wait" /\ om.chan = c
  /\ Len(om.messages) < MaxEchoes
  /\ msgCount' = msgCount + 1
  /\ chanLast' = [chanLast EXCEPT ![c] = NewId]
  /\ om' = [om EXCEPT !.messages = Append(@, [id |-> NewId, ratio |-> shape.ratio,
                                              contained |-> shape.contained, files |-> shape.files])]
  /\ UNCHANGED <<now, chanState, offline, entries, mem, store, sweep, rs, rc, delivered, events>>
  /\ UNCHANGED charVars
  /\ UNCHANGED editVars
  /\ UNCHANGED viewVars

\* lines 174-225: asyncio.wait returns; unless the handler returns early, `info` is
\* updated and update_one called
OnMessageWake(done) ==
  /\ om.pc = "wait"
  /\ done \in DoneOrders
  /\ IF EarlyReturn(done, om.messages)
     THEN /\ om' = OmIdle
          /\ UNCHANGED <<mem, delivered>>
     ELSE LET aux == AuxMessage(om.msg, om.messages)
          IN /\ mem' = IF om.live
                       THEN [mem EXCEPT ![om.chan][om.user].last_message_id = aux,
                                        ![om.chan][om.user].notified_already = FALSE]
                       ELSE mem
             /\ delivered' = [delivered EXCEPT ![<<om.user, om.chan>>] = FALSE]
             /\ om' = [om EXCEPT !.pc = "update_one", !.aux = aux, !.messages = <<>>]
  /\ UNCHANGED <<now, msgCount, chanState, chanLast, offline, entries, store, sweep, rs, rc, events>>
  /\ UNCHANGED charVars
  /\ UNCHANGED editVars
  /\ UNCHANGED viewVars

\* lines 222-225: update_one({user_id, channel_id}, {$set: {last_message_id,
\* notified_already: False}}) has been applied to the matching document, if there is one
OnMessageUpdated ==
  /\ om.pc = "update_one"
  /\ LET k == <<om.user, om.chan>>
     IN store' = IF store[k] = NoInfo THEN store
                 ELSE [store EXCEPT ![k].last_message_id = om.aux, ![k].notified_already = FALSE]
  /\ om' = OmIdle
  /\ UNCHANGED <<now, msgCount, chanState, chanLast, offline, entries, mem, sweep, rs, rc, delivered, events>>
  /\ UNCHANGED charVars
  /\ UNCHANGED editVars
  /\ UNCHANGED viewVars

(* --------------------------- the specification -------------------------- *)
Next ==
  \/ Tick
  \/ \E c \in Channels : DeleteChannel(c)
  \/ \E u \in Users : SetStatus(u)
  \/ OnReady
  \/ \E u \in Users, c \in Channels, t \in Times, perm \in BOOLEAN : RemindSet(u, c, t, perm)
  \/ RemindSetDenied
  \/ RemindSetInstall
  \/ RemindSetReplaced
  \/ \E u \in Users, c \in Channels : RemindClear(u, c)
  \/ RemindClearDone
  \/ SweepStart
  \/ \E outcome \in {"NotFound", "HTTPException"} : SweepFetchChannel(outcome)
  \/ SweepDeleteMany
  \/ \E outcome \in {"ok", "NotFound", "HTTPException"} : SweepFetch(outcome)
  \/ \E outcome \in {"ok", "NotFound", "HTTPException"} : SweepReply(outcome)
  \/ \E outcome \in {"ok", "HTTPException"} : SweepSend(outcome)
  \/ \E outcome \in {"ok", "HTTPException"} : SweepReact(outcome)
  \/ SweepUpdate
  \/ \E u \in Users, c \in Channels, pings, command \in BOOLEAN : OnMessage(u, c, pings, command)
  \/ \E outcome \in {"ok", "HTTPException"} : OnMessageReplied(outcome)
  \/ \E c \in Channels, shape \in EchoShapes : WebhookMessage(c, shape)
  \/ \E done \in DoneOrders : OnMessageWake(done)
  \/ OnMessageUpdated

Spec == Init /\ [][Next]_vars

(* -------------------------------- claims -------------------------------- *)
\* the ids a handler of on_message may take as the last message: the message itself or
\* a webhook message that matches it
Accepted(h) ==
  IF h.pc = "update_one" THEN {h.aux}
  ELSE {h.msg} \cup {h.messages[i].id : i \in {j \in DOMAIN h.messages : Matches(h.messages[j])}}

\* the reminder r is reset to one of the ids
ResetTo(r, ids) == ~r.notified_already /\ r.last_message_id \in ids

\* on_message returns
OnMessageReturns(done) == (OnMessageWake(done) \/ OnMessageUpdated) /\ om'.pc = "idle"

\* C1: when on_message returns for a qualifying message (the author has a reminder in the
\* channel, no command, the message neither edited nor deleted), the reminder of (author,
\* channel) that is in the map, and the one in the store, have notified_already = FALSE
\* and last_message_id = the id of the message or of its matched proxy echo.
C1_QualifyingMessageResets ==
  [][OnMessageReturns(<<"Message">>) =>
       LET u == om.user
           c == om.chan
       IN /\ mem'[c][u] # NoInfo => ResetTo(mem'[c][u], Accepted(om))
          /\ store'[<<u, c>>] # NoInfo => ResetTo(store'[<<u, c>>], Accepted(om))]_vars

\* C2: when the wait ends by its timeout, no webhook message was seen and the message was
\* neither edited nor deleted, on_message goes on with the original message: the reminder
\* it looked up gets last_message_id = the message's id and notified_already = FALSE, and
\* update_one is called with them.
C2_TimeoutProceedsWithOriginal ==
  [][(om.messages = <<>> /\ OnMessageWake(<<"Message">>)) =>
       /\ om'.pc = "update_one"
       /\ om'.aux = om.msg
       /\ om.live => ResetTo(mem'[om.chan][om.user], {om.msg})]_vars

\* the sweep delivers a notification (the reply, or the fallback send)
Delivers == (SweepReply("ok") \/ SweepSend("ok"))

\* C3: the sweep notifies a reminder once per expiry: it delivers no notification for a
\* reminder for which one was delivered since the reminder's last message was set.
C3_NotifiedOncePerExpiry ==
  [][Delivers => ~delivered[<<sweep.user, sweep.chan>>]]_vars

\* the reminder of (u, c) goes from Armed to Fired in the map / in the store
FiresInMemory(u, c) ==
  /\ mem[c][u] # NoInfo /\ ~mem[c][u].notified_already
  /\ mem'[c][u] # NoInfo /\ mem'[c][u].notified_already

FiresInStore(u, c) ==
  /\ store[<<u, c>>] # NoInfo /\ ~store[<<u, c>>].notified_already
  /\ store'[<<u, c>>] # NoInfo /\ store'[<<u, c>>].notified_already

\* the sweep is done with the reminder it delivered a notification for
AfterDelivery == sweep.pc = "react" /\ sweep'.pc # "react"

\* C4: notified_already becomes true, in the map and in the store, only by the sweep, for
\* the reminder it found not notified and expired and delivered a notification for; and
\* after every such delivery the flag is set in the map and its update sent to the store.
C4_FiredOnlyAndAlwaysOnDelivery ==
  [][/\ \A u \in Users, c \in Channels :
          /\ FiresInMemory(u, c) =>
               SweepReact("ok") /\ sweep.user = u /\ sweep.chan = c /\ mem[c][u].cooldown_time > 0
          /\ FiresInStore(u, c) => SweepUpdate /\ sweep.user = u /\ sweep.chan = c
     /\ AfterDelivery =>
          /\ sweep'.pc = "update_one"
          /\ mem'[sweep.chan][sweep.user] # NoInfo => mem'[sweep.chan][sweep.user].notified_already]_vars

\* C5: after the sweep has purged a channel that no longer exists, it goes on: the loop
\* is not ended, so the other channels are handled in this run and in the next ones.
C5_SweepContinuesAfterPurge ==
  [][SweepDeleteMany => sweep'.pc # "dead"]_vars

\* C6: when the sweep has purged a channel that could not be resolved, no ReminderInfo of
\* that channel is in the map and no document of that channel is in the store.
C6_PurgeLeavesNoOrphans ==
  [][SweepDeleteMany =>
       /\ \A i \in DOMAIN entries' : entries'[i] # sweep.chan
       /\ \A u \in Users : mem'[sweep.chan][u] = NoInfo /\ store'[<<u, sweep.chan>>] = NoInfo]_vars

\* a call that delivers the notification raises Forbidden / HTTPException
DeliveryFails ==
  SweepFetch("HTTPException") \/ SweepReply("HTTPException") \/ SweepSend("HTTPException")

\* C7: when the delivery of a notification fails with Forbidden / HTTPException, the
\* reminder is left as it is in the map and in the store, and the sweep goes on with the
\* next reminder (continue), so that the reminder is tried again by the next run.
C7_FailedDeliveryIsRetried ==
  [][DeliveryFails => mem' = mem /\ store' = store /\ sweep' = NextInfo(sweep)]_vars

\* C8: a failure of an outbound call made for one reminder or channel does not end the
\* periodic sweep: the run goes on with the next channel after a failed channel
\* resolution, and with the next reminder after a failed fetch, reply, send or reaction.
C8_FailuresDoNotEndTheSweep ==
  [][/\ SweepFetchChannel("HTTPException") => sweep' = NextChannel(sweep)
     /\ (\/ SweepFetch("HTTPException")
         \/ SweepReply("HTTPException")
         \/ SweepSend("HTTPException")
         \/ SweepReact("HTTPException")) => sweep' = NextInfo(sweep)]_vars

\* C9: when the referenced message is gone (fetch raises NotFound) the sweep sends the
\* channel-level notification, and once that is delivered the reminder becomes Fired:
\* the flag is set in the map and its update sent to the store.
C9_FallbackStillFires ==
  [][/\ SweepFetch("NotFound") => sweep'.pc = "send"
     /\ (AfterDelivery /\ sweep.fallback) =>
          /\ sweep'.pc = "update_one"
          /\ mem'[sweep.chan][sweep.user] # NoInfo => mem'[sweep.chan][sweep.user].notified_already]_vars

\* C10: when remind set with a non-zero preset completes, the reminder of (user, channel)
\* in the map and in the store has cooldown_time = the preset's minutes and
\* notified_already = FALSE.
C10_RemindSetArms ==
  [][(RemindSetReplaced /\ rs.amount # 0) =>
       LET u == rs.user
           c == rs.chan
       IN /\ mem'[c][u] # NoInfo
          /\ mem'[c][u].cooldown_time = rs.amount /\ ~mem'[c][u].notified_already
          /\ store'[<<u, c>>].cooldown_time = rs.amount /\ ~store'[<<u, c>>].notified_already]_vars

\* the reminder of (u, c) goes from Fired back to not notified in the map / in the store
UnfiresInMemory(u, c) ==
  /\ mem[c][u] # NoInfo /\ mem[c][u].notified_already
  /\ mem'[c][u] # NoInfo /\ ~mem'[c][u].notified_already

UnfiresInStore(u, c) ==
  /\ store[<<u, c>>] # NoInfo /\ store[<<u, c>>].notified_already
  /\ store'[<<u, c>>] # NoInfo /\ ~store'[<<u, c>>].notified_already

\* C11: once a reminder is notified its notified_already flag stays true, in the map and
\* in the store, until on_message resets it for a message of that user in that channel:
\* no step of the sweep, of remind set or of on_ready turns the flag of an existing
\* reminder back to false.
C11_FiredUntilNewMessage ==
  [][\A u \in Users, c \in Channels :
       /\ UnfiresInMemory(u, c) =>
            (\E done \in DoneOrders : OnMessageWake(done)) /\ om.user = u /\ om.chan = c
       /\ UnfiresInStore(u, c) => OnMessageUpdated /\ om.user = u /\ om.chan = c]_vars

\* an update that on_message or the sweep made to the reminder of (u, c) in the map is
\* on its way to the store (update_one is awaited)
UpdatePending(u, c) ==
  \/ om.pc = "update_one" /\ om.live /\ om.user = u /\ om.chan = c
  \/ sweep.pc = "update_one" /\ sweep.live /\ sweep.user = u /\ sweep.chan = c

\* C12: remind set treats the map as authoritative: when it installs its ReminderInfo
\* while an update of on_message or of the sweep to the same reminder is not persisted
\* yet, the installed reminder keeps the last_message_id and the notified_already of the
\* reminder in the map, not the older values of the store.
C12_RemindSetKeepsMemory ==
  [][(RemindSetInstall /\ UpdatePending(rs.user, rs.chan)) =>
       LET old == mem[rs.chan][rs.user]
           new == mem'[rs.chan][rs.user]
       IN /\ new.last_message_id = old.last_message_id
          /\ new.notified_already = old.notified_already]_vars

(* ---------------- ReminderInfo.expired() on drawn inputs ---------------- *)
\* the latest minute drawn for utcnow()
MaxNow == 8

\* the cog holds one reminder of user 1 in channel 1, with any preset of DEFINITIONS as
\* its cooldown_time and with no last message (None) or one made in any minute up to now
InitExpired ==
  \E t \in 0..MaxNow, preset \in DOMAIN DEFINITIONS,
     last \in {0} \cup {time_snowflake(m) + 1 : m \in 0..MaxNow} :
    /\ snowflake_time(last) <= t
    /\ now = t
    /\ msgCount = 0
    /\ events = 0
    /\ chanState = [c \in Channels |-> "cached"]
    /\ chanLast = [c \in Channels |-> 0]
    /\ offline = [u \in Users |-> FALSE]
    /\ entries = <<1>>
    /\ mem = [c \in Channels |-> IF c = 1
                THEN [EmptySet EXCEPT ![1] = ReminderInfo(1, 1, DEFINITIONS[preset], last, FALSE)]
                ELSE EmptySet]
    /\ store = [k \in Keys |-> IF k = <<1, 1>>
                  THEN ReminderInfo(1, 1, DEFINITIONS[preset], last, FALSE) ELSE NoInfo]
    /\ sweep = SweepIdle
    /\ om = OmIdle
    /\ rs = RsIdle
    /\ rc = RcIdle
    /\ delivered = [k \in Keys |-> FALSE]
    /\ characters = <<>>
    /\ oid = 0
    /\ charOutcome = NoOutcome
    /\ modal = NoModal
    /\ rn = RnIdle
    /\ shown = NoShown
    /\ offered = NoChoices

\* time passes and the sweep runs: reminder_check applies expired() to the reminder
NextExpired ==
  \/ Tick
  \/ SweepStart
  \/ \E outcome \in {"ok", "NotFound", "HTTPException"} : SweepFetch(outcome)
  \/ \E outcome \in {"ok", "NotFound", "HTTPException"} : SweepReply(outcome)
  \/ \E outcome \in {"ok", "HTTPException"} : SweepSend(outcome)
  \/ \E outcome \in {"ok", "HTTPException"} : SweepReact(outcome)
  \/ SweepUpdate

SpecExpired == InitExpired /\ [][NextExpired]_vars

\* the age in minutes of the last message of a reminder
Age(info) == now - snowflake_time(info.last_message_id)

\* C13: expired() is true iff a cooldown is set (cooldown_time > 0), a last_message_id is
\* set and the minute of the last message plus cooldown_time is at most now; with
\* cooldown_time = 5 it is true at an age of 6 and of exactly 5 minutes, false at 4.
C13_ExpiredIffCooldownPassed ==
  \A c \in Channels, u \in Users :
    LET info == mem[c][u]
    IN info # NoInfo =>
         /\ expired(info) <=>
              /\ info.cooldown_time > 0
              /\ info.last_message_id # 0
              /\ snowflake_time(info.last_message_id) + info.cooldown_time <= now
         /\ (info.cooldown_time = 5 /\ info.last_message_id # 0) =>
              /\ Age(info) = 6 => expired(info)
              /\ Age(info) = 5 => expired(info)
              /\ Age(info) = 4 => ~expired(info)

\* the sweep has selected a reminder of cooldown 5 whose last message is exactly 5 minutes old
C13_Witness ==
  /\ sweep.pc = "fetch"
  /\ mem[sweep.chan][sweep.user].cooldown_time = 5
  /\ mem[sweep.chan][sweep.user].last_message_id # 0
  /\ Age(mem[sweep.chan][sweep.user]) = 5

\* C14: when remind clear completes, no reminder of (invoking user, channel) is in the
\* map or in the store, whatever state it was in, and the command changes no reminder of
\* another user or of another channel, neither in the map nor in the store.
C14_ClearRemovesOnlyOwn ==
  [][/\ \A u \in Users, c \in Channels :
          RemindClear(u, c) =>
            /\ store' = store
            /\ \A v \in Users, d \in Channels : <<v, d>> # <<u, c>> => mem'[d][v] = mem[d][v]
     /\ RemindClearDone =>
          /\ mem'[rc.chan][rc.user] = NoInfo
          /\ store'[<<rc.user, rc.chan>>] = NoInfo
          /\ mem' = mem
          /\ \A k \in Keys : k # <<rc.user, rc.chan>> => store'[k] = store[k]]_vars

\* the identity of a reminder: (user id, channel id, server id)
Triple(info) == <<info.user_id, info.channel_id, info.server_id>>

C16_DeniedSetChangesNothing ==
  [][/\ \A u \in Users, c \in Channels, t \in Times :
          RemindSet(u, c, t, FALSE) =>
            rs'.pc = "denied" /\ entries' = entries /\ mem' = mem /\ store' = store
     /\ rs.pc = "denied" =>
          \/ rs' = rs
          \/ rs' = RsIdle /\ entries' = entries /\ mem' = mem /\ store' = store]_vars

\* a refused remind set awaits its reply while the map holds reminders
C16_Witness ==
  /\ rs.pc = "denied"
  /\ \E c \in Channels, u \in Users : mem[c][u] # NoInfo

\* the reminder of (u, c) is Armed and expired
ArmedExpired(u, c) ==
  mem[c][u] # NoInfo /\ ~mem[c][u].notified_already /\ expired(mem[c][u])

\* the sweep goes on to a reminder and starts its delivery (reference.fetch() is called)
Selects ==
  /\ sweep'.pc = "fetch"
  /\ sweep.pc # "fetch" \/ sweep'.si_pos # sweep.si_pos \/ sweep'.chan # sweep.chan

\* the sweep starts a delivery only for a reminder that is Armed and expired and whose
\* member is not offline at that moment
SelectsOnlyEligible ==
  Selects => (ArmedExpired(sweep'.user, sweep'.chan) /\ ~offline[sweep'.user]
              /\ UNCHANGED <<mem, offline, now>>)

\* C17: the sweep attempts delivery only for reminders that are Armed and expired and
\* whose member is not observed offline; a reminder it skips is not set to Fired (only
\* the reminder it selected is), and the skipped reminder of an offline member is
\* notified by a later sweep once the member is back: while such a reminder waits, the
\* periodic sweep is still running.
C17_OfflineSkippedThenNotified ==
  [][/\ SelectsOnlyEligible
     /\ \A u \in Users, c \in Channels :
          /\ (SweepReact("ok") /\ <<u, c>> # <<sweep.user, sweep.chan>>) => mem'[c][u] = mem[c][u]
          /\ (ArmedExpired(u, c) /\ offline[u]) => sweep'.pc # "dead"]_vars

(* ---------------------------- Submission cog ---------------------------- *)
\* the variables of the Reminder cog
reminderVars == <<now, msgCount, events, chanState, chanLast, offline, entries, mem, store, sweep, om, rs, rc, delivered>>

\* the sheet of the character: Species: Jolteon, Level: 5, and no Name field
SheetDesc == Description(<<>>, Jolteon, 5)

\* the same sheet with the field Name: Sparky
NamedDesc == Description(Sparky, Jolteon, 5)

\* names and descriptions users submit
Names == {Spark, BoldSpark, HexName, LongName}

Descriptions == {SheetDesc, NamedDesc}

\* arguments users give to the resolvers
Arguments == {Spark, Sprak, BoldSpark, Zed, HexName, LongName, LongTypo} \cup {IdLiteral(n) : n \in 1..MaxChars}

\* CreateCharacterModal.on_submit: the names submitted hold no blank, so strip() returns
\* them as they are and the check for an empty name or description passes; no image
CreateCharacterModal_on_submit(u, g, name, desc) ==
  LET r == converter(u, name)
  IN /\ CASE r.kind = "Character" ->
               /\ charOutcome' = Outcome("create", u, name, Result("already exists", r.id, r.stage))
               /\ UNCHANGED <<characters, oid>>
          [] r.kind = "TypeError" ->
               /\ charOutcome' = Outcome("create", u, name, r)
               /\ UNCHANGED <<characters, oid>>
          [] r.kind = "BadArgument" ->
               /\ oid < MaxChars
               /\ oid' = oid + 1
               /\ characters' = Append(characters, Document(oid + 1, u, name, desc, g, TRUE))
               /\ charOutcome' = Outcome("create", u, name, Result("TypeError", oid + 1, "inserted"))
     /\ UNCHANGED reminderVars
     /\ UNCHANGED editVars
     /\ UNCHANGED viewVars

\* Submission.add with a name and a description, in a guild, with no mention: the call
\* of line 173 names an attribute Character does not have
add(u, g, name, desc) ==
  /\ charOutcome' = Outcome("add", u, remove_markdown(name), Result("AttributeError", 0, "convert"))
  /\ UNCHANGED <<characters, oid>>
  /\ UNCHANGED reminderVars
  /\ UNCHANGED editVars
  /\ UNCHANGED viewVars

\* a command resolves its argument with Character.converter for the user
Converter(u, argument) ==
  /\ charOutcome' = Outcome("converter", u, argument, converter(u, argument))
  /\ UNCHANGED <<characters, oid>>
  /\ UNCHANGED reminderVars
  /\ UNCHANGED editVars
  /\ UNCHANGED viewVars

\* an application command resolves its argument with CharacterTransformer.transform
Transform(u, argument) ==
  /\ charOutcome' = Outcome("transform", u, argument, transform(u, argument))
  /\ UNCHANGED <<characters, oid>>
  /\ UNCHANGED reminderVars
  /\ UNCHANGED editVars
  /\ UNCHANGED viewVars

\* the collection as the bot finds it at start: at most two documents, of one user, that
\* hold the four keys of Character and no key "server", with the identifiers 1 and 2
Stored == {<<>>}
          \cup {<<Document(1, u, n, d, 0, FALSE)>> : u \in Users, n \in Names, d \in Descriptions}
          \cup {<<Document(1, 1, n, d, 0, FALSE), Document(2, 1, m, d, 0, FALSE)>> :
                  n \in Names, m \in Names, d \in Descriptions}

InitChar ==
  /\ now = 0
  /\ msgCount = 0
  /\ events = 0
  /\ chanState = [c \in Channels |-> "cached"]
  /\ chanLast = [c \in Channels |-> 0]
  /\ offline = [u \in Users |-> FALSE]
  /\ entries = <<>>
  /\ mem = [c \in Channels |-> EmptySet]
  /\ store = [k \in Keys |-> NoInfo]
  /\ sweep = SweepIdle
  /\ om = OmIdle
  /\ rs = RsIdle
  /\ rc = RcIdle
  /\ delivered = [k \in Keys |-> FALSE]
  /\ characters \in Stored
  /\ oid = Len(characters)
  /\ charOutcome = NoOutcome
  /\ modal = NoModal
  /\ rn = RnIdle
  /\ shown = NoShown
  /\ offered = NoChoices

NextChar ==
  \/ \E u \in Users, g \in Guilds, name \in Names : CreateCharacterModal_on_submit(u, g, name, SheetDesc)
  \/ \E u \in Users, g \in Guilds, name \in Names : add(u, g, name, SheetDesc)
  \/ \E u \in Users, argument \in Arguments : Converter(u, argument)
  \/ \E u \in Users, argument \in Arguments : Transform(u, argument)

SpecChar == InitChar /\ [][NextChar]_vars

(* ------------------------- claims on characters ------------------------- *)
\* the document the create command wrote for the character Spark of the sheet
\* Species: Jolteon, Level: 5
CreatedSpark(doc) == doc.has_server /\ doc.name = Spark /\ doc.description = SheetDesc

\* C18: after a user creates the character Spark (Species: Jolteon, Level: 5) in a server
\* through the create command, the document is stored with that user and that server, and
\* resolving for that user its exact name, its identifier and the close misspelling Sprak
\* each returns that character, while resolving a name that matches no one fails with the
\* not-found error.
C18_CreatedCharacterResolves ==
  \A i \in DOMAIN characters :
    LET doc == characters[i]
    IN CreatedSpark(doc) =>
         /\ doc.user_id \in Users /\ doc.server \in Guilds
         /\ (charOutcome.op = "converter" /\ charOutcome.user = doc.user_id) =>
              /\ charOutcome.arg \in {Spark, IdLiteral(doc._id), Sprak} =>
                   charOutcome.kind = "Character" /\ charOutcome.id = doc._id
              /\ charOutcome.arg = Zed =>
                   charOutcome.kind = "BadArgument" /\ charOutcome.stage = "not found"

\* the resolvers
Resolvers == {"converter", "transform"}

\* the argument of the last resolution is the identifier of a character of its user
IdentifierHit(doc) ==
  /\ charOutcome.op \in Resolvers
  /\ charOutcome.user = doc.user_id
  /\ ObjectId(charOutcome.arg) = doc._id

\* C19: when the argument of a resolver (Character.converter, CharacterTransformer.transform)
\* reads as an identifier and a character of the user has that identifier, the resolver
\* returns exactly that character, found by its identifier, with no use of names or of
\* fuzzy matching.
C19_IdentifierHitReturnsIt ==
  \A i \in DOMAIN characters :
    IdentifierHit(characters[i]) =>
      /\ charOutcome.kind = "Character"
      /\ charOutcome.id = characters[i]._id
      /\ charOutcome.stage = "id"

\* the argument of the last resolution is not the identifier of a character of its user,
\* and doc is the first character of the user whose name equals the argument without markdown
NameHit(i) ==
  LET named == {j \in DOMAIN characters :
                  /\ characters[j].user_id = charOutcome.user
                  /\ characters[j].name = remove_markdown(charOutcome.arg)}
  IN /\ charOutcome.op \in Resolvers
     /\ ~\E j \in DOMAIN characters : IdentifierHit(characters[j])
     /\ named # {}
     /\ i = Min(named)

\* C20: when the argument is not an identifier, or is an identifier no character of the
\* user has, the resolver strips the markdown from the argument and looks for a character
\* of the user whose name equals it; when there is one it is returned, found by its name,
\* before any fuzzy matching.
C20_ExactNameBeforeFuzzy ==
  \A i \in DOMAIN characters :
    NameHit(i) =>
      /\ charOutcome.kind = "Character"
      /\ charOutcome.id = characters[i]._id
      /\ charOutcome.stage = "name"

\* the texts the fuzzy stage of the last resolution compares the argument with
Candidates ==
  LET ocs == Own(charOutcome.user)
  IN [i \in DOMAIN ocs |-> IF charOutcome.op = "converter" THEN oc_name(ocs[i]) ELSE ocs[i].name]

\* the last resolution found no character of its user by identifier or by name
NoDirectHit ==
  /\ charOutcome.op \in Resolvers
  /\ ~\E j \in DOMAIN characters : IdentifierHit(characters[j])
  /\ ~\E j \in DOMAIN characters : NameHit(j)

\* C21: when neither the identifier nor the exact name hits, the resolver fails with
\* "You have no characters" if the user has no character at all, and with "not found" if
\* the user has characters and none clears the fuzzy cutoff, both as BadArgument with
\* distinct messages; otherwise the first best candidate above the cutoff is returned.
C21_FuzzyStageOutcomes ==
  NoDirectHit =>
    LET ocs == Own(charOutcome.user)
        best == extractOne(charOutcome.arg, Candidates, 95)
    IN IF ocs = <<>>
       THEN charOutcome.kind = "BadArgument" /\ charOutcome.stage = "You have no characters"
       ELSE IF best = 0
       THEN charOutcome.kind = "BadArgument" /\ charOutcome.stage = "not found"
       ELSE charOutcome.kind = "Character" /\ charOutcome.id = ocs[best]._id

\* the resolver of the last resolution, applied again to its user and argument
ResolvedAgain ==
  IF charOutcome.op = "converter" THEN converter(charOutcome.user, charOutcome.arg)
  ELSE transform(charOutcome.user, charOutcome.arg)

NoGuild == 0

\* the filter {"server": g}: a guild matches the documents that hold it under the key
\* "server", None matches the documents without the key
ServerIs(doc, g) == IF g = NoGuild THEN ~doc.has_server ELSE doc.has_server /\ doc.server = g

\* the equality a dataclass generates: field by field
Character_eq_by_fields(a, b) == a = b

\* Character.__eq__, lines 51-52
Character_eq(a, b) == a._id = b._id

\* the width of hash()
HashBits == 8

\* Character.__hash__, lines 44-45: hash(self._id), a number taken from the identifier alone
Character_hash(a) == (a._id * 31 + 7) % (2 ^ HashBits)

\* the document of the identifier
DocOf(id) == characters[CHOOSE i \in DOMAIN characters : characters[i]._id = id]

\* cls(**doc) of a document without other keys
CharacterOf(doc) == Character(doc._id, doc.user_id, doc.name, doc.description)

\* the collection after delete_one / delete_many of the documents of these identifiers
Deleted(ids) == SelectSeq(characters, LAMBDA d : d._id \notin ids)

\* the documents the filter {"_id": id, "user_id": u, "server": g} matches
Matching(id, u, g) ==
  {i \in DOMAIN characters :
     characters[i]._id = id /\ characters[i].user_id = u /\ ServerIs(characters[i], g)}

\* a description without any field; also the description of a document without the key
NoDescription == Description(<<>>, <<>>, -1)

\* new names and new descriptions given to the edit commands
EditNames == {Spark, Zed}

EditDescriptions == {SheetDesc, NoDescription}

\* arguments given to the edit and delete commands
EditArguments == {Spark, Zed, IdLiteral(1)}

\* argument lists given to delete_many
EditArgumentLists == {<<Spark>>, <<Spark, Zed>>, <<IdLiteral(1), Spark>>}

\* the resolver a command uses: Character.converter when called with a prefix,
\* CharacterTransformer.transform when called as an application command
ResolveBy(by, u, argument) == IF by = "converter" THEN converter(u, argument) ELSE transform(u, argument)

\* Submission.delete, lines 368-380, called as char delete in a guild, or from delchar,
\* which has no guild check and so runs in a direct message too
delete(u, g, argument, by) ==
  LET r == ResolveBy(by, u, argument)
  IN /\ IF r.kind = "Character"
        THEN /\ characters' = Deleted({characters[i]._id : i \in Matching(r.id, u, g)})
             /\ charOutcome' = Outcome("delete", u, argument, Result("deleted", r.id, r.stage))
        ELSE /\ charOutcome' = Outcome("delete", u, argument, r)
             /\ UNCHANGED characters
     /\ UNCHANGED <<oid, modal, rn>>
     /\ UNCHANGED reminderVars
     /\ UNCHANGED viewVars

\* the characters Submission.delete_many resolves from its arguments
Resolved(u, arguments) == [i \in DOMAIN arguments |-> converter(u, arguments[i])]

\* the identifiers Submission.delete_many reports as deleted
ReportedIds(u, arguments) == {Resolved(u, arguments)[i].id : i \in DOMAIN arguments}

\* Submission.delete_many, lines 395-423, with at least one argument, in a guild
delete_many(u, g, arguments) ==
  LET ocs == Resolved(u, arguments)
      failed == {i \in DOMAIN ocs : ocs[i].kind # "Character"}
      oc_ids == ReportedIds(u, arguments)
      hits == {i \in DOMAIN characters :
                 /\ characters[i]._id \in oc_ids
                 /\ characters[i].user_id = u
                 /\ ServerIs(characters[i], g)}
  IN /\ IF failed # {}
        THEN /\ charOutcome' = Outcome("delete_many", u, arguments[1], ocs[Min(failed)])
             /\ UNCHANGED characters
        ELSE /\ characters' = Deleted({characters[i]._id : i \in hits})
             /\ charOutcome' = Outcome("delete_many", u, arguments[1], Result("deleted", ocs[1].id, "many"))
     /\ UNCHANGED <<oid, modal, rn>>
     /\ UNCHANGED reminderVars
     /\ UNCHANGED viewVars

\* Submission.purge, lines 734-745, in a guild
purge(u, g) ==
  /\ characters' = SelectSeq(characters, LAMBDA d : ~(d.user_id = u /\ ServerIs(d, g)))
  /\ charOutcome' = Outcome("purge", u, <<>>, Result("purged", 0, "all"))
  /\ UNCHANGED <<oid, modal, rn>>
  /\ UNCHANGED reminderVars
  /\ UNCHANGED viewVars

\* Submission.update, lines 439-457, in a guild: the modal is sent with the character
update(u, g, argument) ==
  LET r == transform(u, argument)
  IN /\ IF r.kind = "Character"
        THEN /\ modal' = [pc |-> "sent", user |-> u, character |-> CharacterOf(DocOf(r.id))]
             /\ charOutcome' = Outcome("update", u, argument, Result("modal", r.id, r.stage))
        ELSE /\ charOutcome' = Outcome("update", u, argument, r)
             /\ UNCHANGED modal
     /\ UNCHANGED <<characters, oid, rn>>
     /\ UNCHANGED reminderVars
     /\ UNCHANGED viewVars

\* the collection after update_one({"_id": id, "server": g}, {"$set": {name, description}})
SetNameAndDescription(id, g, name, desc) ==
  [i \in DOMAIN characters |->
     IF characters[i]._id = id /\ ServerIs(characters[i], g)
     THEN [characters[i] EXCEPT !.name = name, !.description = desc]
     ELSE characters[i]]

\* UpdateCharacterModal.on_submit, lines 134-163: the user submits the modal in the guild
UpdateCharacterModal_on_submit(g, name, desc) ==
  LET u == modal.user
      r == converter(u, name)
      oc == modal.character
  IN /\ modal.pc = "sent"
     /\ CASE r.kind = "TypeError" ->
               /\ modal' = [modal EXCEPT !.pc = "done"]
               /\ charOutcome' = Outcome("on_submit", u, name, r)
               /\ UNCHANGED characters
          [] r.kind = "Character" /\ ~Character_eq(CharacterOf(DocOf(r.id)), oc) ->
               /\ modal' = [modal EXCEPT !.pc = "done"]
               /\ charOutcome' = Outcome("on_submit", u, name, Result("already exists", r.id, r.stage))
               /\ UNCHANGED characters
          [] OTHER ->
               /\ characters' = SetNameAndDescription(oc._id, g, name, desc)
               /\ modal' = [modal EXCEPT !.pc = "done",
                                         !.character = Character(oc._id, oc.user_id, name, desc)]
               /\ charOutcome' = Outcome("on_submit", u, name, Result("updated", oc._id, "modal"))
     /\ UNCHANGED <<oid, rn>>
     /\ UNCHANGED reminderVars
     /\ UNCHANGED viewVars

\* Submission.name, lines 609-632, in a guild: the character is resolved and the new name
\* is checked; the command then waits for update_one
NameResolve(u, g, argument, name) ==
  LET r == converter(u, argument)
      new == remove_markdown(name)
  IN /\ rn.pc = "idle"
     /\ CASE r.kind # "Character" ->
               /\ charOutcome' = Outcome("name", u, argument, r)
               /\ UNCHANGED rn
          [] r.kind = "Character" /\ new = DocOf(r.id).name ->
               /\ charOutcome' = Outcome("name", u, argument, Result("same name", r.id, r.stage))
               /\ UNCHANGED rn
          [] OTHER ->
               /\ rn' = [pc |-> "update", user |-> u, guild |-> g, id |-> r.id, name |-> new]
               /\ charOutcome' = Outcome("name", u, argument, Result("resolved", r.id, r.stage))
     /\ UNCHANGED <<characters, oid, modal>>
     /\ UNCHANGED reminderVars
     /\ UNCHANGED viewVars

\* Submission.name, lines 633-638: update_one with upsert=True. With no document matching
\* the filter the server inserts one made of the filter and the new name, which raises
\* DuplicateKeyError when the collection holds a document of that _id
NameUpdate ==
  LET hits == Matching(rn.id, rn.user, rn.guild)
  IN /\ rn.pc = "update"
     /\ CASE hits # {} ->
               /\ characters' = [i \in DOMAIN characters |->
                                   IF i \in hits THEN [characters[i] EXCEPT !.name = rn.name]
                                   ELSE characters[i]]
               /\ charOutcome' = Outcome("name", rn.user, rn.name, Result("changed", rn.id, "update_one"))
          [] hits = {} /\ \E i \in DOMAIN characters : characters[i]._id = rn.id ->
               /\ charOutcome' = Outcome("name", rn.user, rn.name, Result("DuplicateKeyError", rn.id, "update_one"))
               /\ UNCHANGED characters
          [] OTHER ->
               /\ characters' = Append(characters,
                                       Document(rn.id, rn.user, rn.name, NoDescription, rn.guild, TRUE))
               /\ charOutcome' = Outcome("name", rn.user, rn.name, Result("changed", rn.id, "upsert"))
     /\ rn' = RnIdle
     /\ UNCHANGED <<oid, modal>>
     /\ UNCHANGED reminderVars
     /\ UNCHANGED viewVars

\* Submission.description, lines 659-692, in a guild, with no attachment
description(u, g, argument, desc) ==
  LET r == converter(u, argument)
  IN /\ CASE r.kind # "Character" ->
               /\ charOutcome' = Outcome("description", u, argument, r)
               /\ UNCHANGED characters
          [] r.kind = "Character" /\ desc = DocOf(r.id).description ->
               /\ charOutcome' = Outcome("description", u, argument, Result("same description", r.id, r.stage))
               /\ UNCHANGED characters
          [] OTHER ->
               /\ characters' = [i \in DOMAIN characters |->
                                   IF i \in Matching(r.id, u, g)
                                   THEN [characters[i] EXCEPT !.description = desc]
                                   ELSE characters[i]]
               /\ charOutcome' = Outcome("description", u, argument, Result("changed", r.id, r.stage))
     /\ UNCHANGED <<oid, modal, rn>>
     /\ UNCHANGED reminderVars
     /\ UNCHANGED viewVars

\* the edit commands
NextEdit ==
  \/ \E u \in Users, g \in Guilds, argument \in EditArguments : update(u, g, argument)
  \/ \E g \in Guilds, name \in EditNames, desc \in EditDescriptions :
       UpdateCharacterModal_on_submit(g, name, desc)
  \/ \E u \in Users, g \in Guilds, argument \in EditArguments, name \in EditNames :
       NameResolve(u, g, argument, name)
  \/ NameUpdate
  \/ \E u \in Users, g \in Guilds, argument \in EditArguments, desc \in EditDescriptions :
       description(u, g, argument, desc)

\* the delete commands, next to the commands that add documents
NextDelete ==
  \/ \E u \in Users, g \in Guilds : CreateCharacterModal_on_submit(u, g, Spark, SheetDesc)
  \/ \E u \in Users, g \in Guilds \cup {NoGuild}, argument \in EditArguments, by \in Resolvers :
       delete(u, g, argument, by)
  \/ \E u \in Users, g \in Guilds, arguments \in EditArgumentLists : delete_many(u, g, arguments)
  \/ \E u \in Users, g \in Guilds : purge(u, g)
  \/ \E u \in Users, g \in Guilds, argument \in EditArguments, name \in EditNames :
       NameResolve(u, g, argument, name)
  \/ NameUpdate

\* the collection as the edit and delete commands find it at start: documents without
\* the key "server", of one user or of two, and a document written by the create command
StoredEdit == {<<>>,
               <<Document(1, 1, Spark, SheetDesc, 0, FALSE)>>,
               <<Document(1, 1, Spark, SheetDesc, 0, FALSE), Document(2, 1, Zed, SheetDesc, 0, FALSE)>>,
               <<Document(1, 1, Spark, SheetDesc, 0, FALSE), Document(2, 2, Spark, SheetDesc, 0, FALSE)>>,
               <<Document(1, 1, Spark, SheetDesc, 0, FALSE), Document(2, 2, Spark, SheetDesc, 9, TRUE)>>}

InitEdit ==
  /\ now = 0
  /\ msgCount = 0
  /\ events = 0
  /\ chanState = [c \in Channels |-> "cached"]
  /\ chanLast = [c \in Channels |-> 0]
  /\ offline = [u \in Users |-> FALSE]
  /\ entries = <<>>
  /\ mem = [c \in Channels |-> EmptySet]
  /\ store = [k \in Keys |-> NoInfo]
  /\ sweep = SweepIdle
  /\ om = OmIdle
  /\ rs = RsIdle
  /\ rc = RcIdle
  /\ delivered = [k \in Keys |-> FALSE]
  /\ characters \in StoredEdit
  /\ oid = Len(characters)
  /\ charOutcome = NoOutcome
  /\ modal = NoModal
  /\ rn = RnIdle
  /\ shown = NoShown
  /\ offered = NoChoices

SpecEdit == InitEdit /\ [][NextEdit]_vars

SpecDelete == InitEdit /\ [][NextDelete]_vars

(* -------------------- claims on editing and deleting --------------------- *)
\* the Character values at hand: those a lookup builds from the documents, and the one
\* the update modal holds
KnownCharacters ==
  {CharacterOf(characters[i]) : i \in DOMAIN characters}
    \cup (IF modal.pc = "none" THEN {} ELSE {modal.character})

\* equality and hash of Character values follow the identifier alone
EqualByIdentity ==
  \A x \in KnownCharacters, y \in KnownCharacters :
    /\ x._id = y._id => Character_eq(x, y) /\ Character_hash(x) = Character_hash(y)
    /\ x._id # y._id => ~Character_eq(x, y)

SameButMarkdown(doc) ==
  /\ charOutcome.op \in Resolvers
  /\ ObjectId(charOutcome.arg) = -1
  /\ Own(charOutcome.user) = <<doc>>
  /\ doc.description.Name = <<>>
  /\ remove_markdown(charOutcome.arg) = remove_markdown(doc.name)

\* C24: the resolver uses the same markdown-stripped form of the argument for the query
\* by name and for the fuzzy comparison with the names of the candidates, so an argument
\* that differs from a stored name only by markdown resolves to that character.
C24_MarkdownAppliedConsistently ==
  \A i \in DOMAIN characters :
    SameButMarkdown(characters[i]) =>
      charOutcome.kind = "Character" /\ charOutcome.id = characters[i]._id

(* ------------------------ display_name on drawn inputs --------------------- *)
\* the texts written after Name:, Species: and Level: in the sheets; empty: no such line
LongField == <<"S", "p", "a", "r", "k", "l", "i", "n", "g", " ", "T", "h", "u", "n", "d", "e", "r", "b", "o", "l", "t", " ", "F", "o", "x">>

ShinyJolteon == <<"J", "o", "l", "t", "e", "o", "n", ",", " ", "s", "h", "i", "n", "y">>

LongSpecies == <<"J", "o", "l", "t", "e", "o", "n", " ", "o", "f", " ", "t", "h", "e", " ", "T", "h", "u", "n", "d", "e", "r", " ", "P", "l", "a", "i", "n", "s">>

LongRawName == <<"_", "_", "S", "p", "a", "r", "k", "l", "i", "n", "g", "_", "T", "h", "u", "n", "d", "e", "r", "b", "o", "l", "t", "_", "_">>

NameFields == {<<>>, Spark, BoldSpark, LongField}

SpeciesFields == {<<>>, Jolteon, ShinyJolteon, LongSpecies}

LevelFields == {<<>>, <<"5">>, <<"1", "2">>, <<"1", "0", "0", "0">>}

\* one line of a sheet, "Key: value" and a line feed, or nothing when the value is empty
Line(key, value) == IF value = <<>> THEN <<>> ELSE key \o <<":", " ">> \o value \o <<"\n">>

KeyName == <<"N", "a", "m", "e">>

KeySpecies == <<"S", "p", "e", "c", "i", "e", "s">>

KeyLevel == <<"L", "e", "v", "e", "l">>

\* the description text of a sheet with these fields
Sheet(name, species, level) == Line(KeyName, name) \o Line(KeySpecies, species) \o Line(KeyLevel, level)

\* the sheet of the character Spark: "Name: Spark", "Species: Jolteon", "Level: 5"
SparkSheet == Sheet(Spark, Jolteon, <<"5">>)

\* a sheet whose Name line is left empty, one with the key in capitals and bold, and one
\* with a Nickname line only
EmptyNameSheet == <<"N", "a", "m", "e", ":", "\n", "S", "p", "e", "c", "i", "e", "s", ":", " ", "E", "e", "v", "e", "e", "\n">>

BoldKeySheet == <<"*", "*", "N", "A", "M", "E", "*", "*", " ", ":", " ", "S", "p", "a", "r", "k", "\n", "l", "e", "v", "e", "l", ":", "7">>

NicknameSheet == <<"N", "i", "c", "k", "n", "a", "m", "e", ":", " ", "A", "c", "e", "\n">>

\* the description texts drawn
Texts ==
  {Sheet(n, s, l) : n \in NameFields, s \in SpeciesFields, l \in LevelFields}
    \cup {EmptyNameSheet, BoldKeySheet, NicknameSheet}

\* the raw names drawn
RawNames == {Spark, BoldSpark, LongRawName}

InitDisplay ==
  /\ now = 0
  /\ msgCount = 0
  /\ events = 0
  /\ chanState = [c \in Channels |-> "cached"]
  /\ chanLast = [c \in Channels |-> 0]
  /\ offline = [u \in Users |-> FALSE]
  /\ entries = <<>>
  /\ mem = [c \in Channels |-> EmptySet]
  /\ store = [k \in Keys |-> NoInfo]
  /\ sweep = SweepIdle
  /\ om = OmIdle
  /\ rs = RsIdle
  /\ rc = RcIdle
  /\ delivered = [k \in Keys |-> FALSE]
  /\ characters = <<>>
  /\ oid = 0
  /\ charOutcome = NoOutcome
  /\ modal = NoModal
  /\ rn = RnIdle
  /\ \E name \in RawNames, text \in Texts :
       shown = [name |-> name, text |-> text, display |-> <<>>, done |-> FALSE]
  /\ offered = NoChoices

\* a listing reads display_name of the character of this name and description
Display ==
  /\ shown' = [shown EXCEPT !.display = display_name(Character(0, 0, shown.name, Fields(shown.text))),
                            !.done = TRUE]
  /\ UNCHANGED offered
  /\ UNCHANGED charVars
  /\ UNCHANGED editVars
  /\ UNCHANGED reminderVars

NextDisplay == Display

SpecDisplay == InitDisplay /\ [][NextDisplay]_vars

(* --------------------------- claims on listings --------------------------- *)
\* a text cut to its first 20 characters and followed by an ellipsis when it is longer
Ellipsized(s) == IF Len(s) > 20 THEN SubSeq(s, 1, 20) \o <<".", ".", ".">> ELSE s

\* the fields of the description shown
ShownFields == Fields(shown.text)

\* the name display_name starts from: the Name field when there is one, else the raw name
ShownName == IF ShownFields.Name # <<>> THEN strip(ShownFields.Name) ELSE shown.name

\* the number display_name shows: the Level field, 0 when there is none
ShownLevel == IF ShownFields.Level # -1 THEN ShownFields.Level ELSE 0

\* the digits before U+3019 in the display_name shown
LevelPart ==
  SubSeq(shown.display, 1, Min({i \in DOMAIN shown.display : shown.display[i] = RightBracket}) - 1)

\* the digits are those of the level, padded with zeros to three
ZeroPadded ==
  /\ \E i \in DOMAIN shown.display : shown.display[i] = RightBracket
  /\ \A i \in DOMAIN LevelPart : IsDigit(LevelPart[i])
  /\ int(LevelPart) = ShownLevel
  /\ Len(LevelPart) >= 3
  /\ Len(LevelPart) > 3 => LevelPart[1] # "0"

\* what follows the digits in the display_name shown
AfterLevel == SubSeq(shown.display, Len(LevelPart) + 1, Len(shown.display))

\* "005", U+3019, "Spark", U+300A, "Jolteon", U+300B
SparkDisplay ==
  <<"0", "0", "5", RightBracket>> \o Spark \o <<LeftAngle>> \o Jolteon \o <<RightAngle>>

\* C26 as stated: display_name is the level of the Level field padded with zeros to 3
\* digits (000 when absent), then U+3019, the Name field (else the raw name) cut to 20
\* characters plus an ellipsis, then in U+300A U+300B the Species field cut likewise
\* (Unknown when absent); Name Spark, Species Jolteon, Level 5 give 005, Spark, Jolteon.
C26_DisplayNameAsStated ==
  shown.done =>
    /\ ZeroPadded
    /\ AfterLevel = <<RightBracket>> \o Ellipsized(ShownName) \o <<LeftAngle>>
                      \o (IF ShownFields.Species # <<>> THEN Ellipsized(strip(ShownFields.Species))
                          ELSE Unknown)
                      \o <<RightAngle>>
    /\ shown.text = SparkSheet => shown.display = SparkDisplay

\* C26 amended: as stated, except that the species is the Species field up to its first
\* "." or ",", and that the markdown characters are removed from the whole string after
\* the name and the species were cut to 20 characters.
C26_DisplayNameComposed ==
  shown.done =>
    /\ ZeroPadded
    /\ AfterLevel = <<RightBracket>> \o remove_markdown(Ellipsized(ShownName)) \o <<LeftAngle>>
                      \o (IF ShownFields.Species # <<>>
                          THEN remove_markdown(Ellipsized(
                                 FirstPart(FirstPart(strip(ShownFields.Species), "."), ",")))
                          ELSE Unknown)
                      \o <<RightAngle>>
    /\ shown.text = SparkSheet => shown.display = SparkDisplay

\* display_name was read for the sheet Name: Spark, Species: Jolteon, Level: 5
C26_Witness == shown.done /\ shown.text = SparkSheet /\ shown.display = SparkDisplay

(* ------------------------------ autocomplete ------------------------------ *)
\* the characters of the texts, in the order of their code points
CodePoints == <<"\n", " ", "*", ",", ".">> \o SubSeq(HexDigits, 1, 10) \o <<":">> \o UpperLetters
                \o <<"\\", "_">> \o LowerLetters \o <<"|", "~", LeftAngle, RightAngle, RightBracket>>

ord(ch) == CHOOSE i \in DOMAIN CodePoints : CodePoints[i] = ch

\* a < b for two texts, as Python compares str
Less(a, b) ==
  LET short == IF Len(a) <= Len(b) THEN Len(a) ELSE Len(b)
      differ == {i \in 1..short : a[i] # b[i]}
  IN IF differ = {} THEN Len(a) < Len(b) ELSE ord(a[Min(differ)]) < ord(b[Min(differ)])

RECURSIVE Inserted(_, _)
\* the sorted list ocs with x put in after the characters whose name is not greater
Inserted(ocs, x) ==
  IF ocs = <<>> THEN <<x>>
  ELSE IF Less(x.name, Head(ocs).name) THEN <<x>> \o ocs
  ELSE <<Head(ocs)>> \o Inserted(Tail(ocs), x)

RECURSIVE SortedByName(_)
\* ocs.sort(key=lambda x: x.name), line 188: a stable sort by the raw name
SortedByName(ocs) ==
  IF ocs = <<>> THEN <<>>
  ELSE Inserted(SortedByName(SubSeq(ocs, 1, Len(ocs) - 1)), ocs[Len(ocs)])

\* part in text, for two texts
Contains(text, part) ==
  \E p \in 0..(Len(text) - Len(part)) : \A i \in DOMAIN part : text[p + i] = part[i]

\* the most choices autocomplete returns, items[:25]
MaxChoices == 25

\* Choice(name=item.display_name, value=str(item._id))
Choice(oc) == [name |-> display_name(oc), value |-> IdLiteral(oc._id)]

\* the partial values typed
PartialValues == {<<>>, <<"s", "p", "a", "r", "k">>, Zed}

\* CharacterTransformer.autocomplete, lines 176-191, for the user u (the author option,
\* else the user of the interaction) and the value typed so far
autocomplete(u, value) ==
  LET docs == Own(u)
      ocs == SortedByName([i \in DOMAIN docs |-> CharacterOf(docs[i])])
      items == IF value # <<>>
               THEN SelectSeq(ocs, LAMBDA x : Contains(lower(display_name(x)), lower(value)))
               ELSE ocs
      first == SubSeq(items, 1, IF Len(items) < MaxChoices THEN Len(items) ELSE MaxChoices)
  IN /\ offered' = IF \E i \in DOMAIN docs : ~Constructs(docs[i])
                   THEN [user |-> u, value |-> value, kind |-> "TypeError", items |-> <<>>]
                   ELSE [user |-> u, value |-> value, kind |-> "choices",
                         items |-> [i \in DOMAIN first |-> Choice(first[i])]]
     /\ UNCHANGED shown
     /\ UNCHANGED charVars
     /\ UNCHANGED editVars
     /\ UNCHANGED reminderVars

NextAutocomplete ==
  \/ \E u \in Users, g \in Guilds : CreateCharacterModal_on_submit(u, g, Spark, SheetDesc)
  \/ \E u \in Users, value \in PartialValues : autocomplete(u, value)

SpecAutocomplete == InitChar /\ [][NextAutocomplete]_vars

\* the characters of the user autocomplete was called for
OfferedFrom == Own(offered.user)

\* the choice stands for a character of the user
OfChoice(choice) ==
  {i \in DOMAIN OfferedFrom : IdLiteral(OfferedFrom[i]._id) = choice.value
                               /\ display_name(OfferedFrom[i]) = choice.name}

\* the characters of the user that a choice stands for
Chosen == {i \in DOMAIN OfferedFrom : \E k \in DOMAIN offered.items : i \in OfChoice(offered.items[k])}

\* the characters of the user whose derived name contains the value typed, case ignored
Containing ==
  {i \in DOMAIN OfferedFrom :
     Contains(lower(display_name(OfferedFrom[i])), lower(offered.value))}

\* C25: autocomplete returns at most 25 choices, each a character of the user it is
\* called for, in the order of their derived names; with a partial value these are the
\* characters whose derived name contains the value, case ignored, and without one all the
\* characters of the user, in both cases cut to the first 25.
C25_AutocompleteChoices ==
  offered.kind # "none" =>
    /\ offered.kind = "choices"
    /\ Len(offered.items) <= 25
    /\ \A k \in DOMAIN offered.items : OfChoice(offered.items[k]) # {}
    /\ \A k \in DOMAIN offered.items, l \in DOMAIN offered.items :
         k < l => ~Less(offered.items[l].name, offered.items[k].name)
    /\ Len(OfferedFrom) <= 25 =>
         Chosen = IF offered.value # <<>> THEN Containing ELSE DOMAIN OfferedFrom

(* --------------------------- claims on deleting --------------------------- *)
\* the identifiers of the documents in the collection
StoredIds == {characters[i]._id : i \in DOMAIN characters}

\* the last command was a delete or delete_many that replied with the character deleted
ReportsDeleted ==
  /\ charOutcome.op \in {"delete", "delete_many"}
  /\ charOutcome.kind = "deleted"

\* a resolver returns the character of the last outcome to its user again, for its
\* identifier or for the argument it was named by
StillResolves ==
  \E argument \in {IdLiteral(charOutcome.id), charOutcome.arg}, by \in Resolvers :
     /\ ResolveBy(by, charOutcome.user, argument).kind = "Character"
     /\ ResolveBy(by, charOutcome.user, argument).id = charOutcome.id

MessageDuringDelivery(u, c) ==
  /\ sweep.pc = "react" /\ sweep.live /\ sweep.user = u /\ sweep.chan = c
  /\ om.pc = "update_one" /\ om.live /\ om.user = u /\ om.chan = c
  /\ mem[c][u] # NoInfo
  /\ ~delivered[<<u, c>>]

\* C28: a message handled by on_message while the sweep is suspended between the delivery
\* of a notification for the same reminder and its write of the flag is not lost: when
\* the sweep resumes, the reminder stays Armed for the new message (notified_already =
\* false, last_message_id = the new message), so that notified_already = true implies a
\* notification delivered for the current last_message_id.
C28_MessageDuringDeliveryIsKept ==
  [][\A u \in Users, c \in Channels :
       MessageDuringDelivery(u, c) /\ sweep' # sweep =>
         /\ mem'[c][u] # NoInfo
         /\ ~mem'[c][u].notified_already
         /\ mem'[c][u].last_message_id = mem[c][u].last_message_id]_vars

\* the sweep takes the next step of its two loops: at the start of a run, after a
\* `continue`, and at the end of the loop body
SweepIterates ==
  \/ SweepStart
  \/ SweepDeleteMany
  \/ SweepFetch("HTTPException")
  \/ SweepReply("HTTPException")
  \/ SweepUpdate

\* C29: the sweep's iteration over the channel map and over a channel's reminder set is
\* not invalidated by what happened at its suspension points (remind set adding a key or
\* replacing a reminder, remind clear removing one, the on_ready load, the sweep's own
\* removal of a deleted channel): whenever the sweep takes the next step of its loops it
\* goes on to the next reminder or ends its run, and is not aborted.
C29_IterationNeverInvalidated ==
  [][SweepIterates => sweep'.pc # "dead"]_vars

\* the state once on_ready has loaded the collection into the map, lines 104-109
InitLoaded ==
  /\ now = 1
  /\ msgCount = 0
  /\ events = 0
  /\ chanState = [c \in Channels |-> "cached"]
  /\ chanLast = [c \in Channels |-> 0]
  /\ offline = [u \in Users |-> FALSE]
  /\ store = [k \in Keys |-> IF k \in InitKeys THEN StoredDoc(k[1], k[2]) ELSE NoInfo]
  /\ entries = AddKeys(<<>>, CursorOrder)
  /\ mem = [c \in Channels |-> [u \in Users |-> store[<<u, c>>]]]
  /\ sweep = SweepIdle
  /\ om = OmIdle
  /\ rs = RsIdle
  /\ rc = RcIdle
  /\ delivered = [k \in Keys |-> FALSE]
  /\ characters = <<>>
  /\ oid = 0
  /\ charOutcome = NoOutcome
  /\ modal = NoModal
  /\ rn = RnIdle
  /\ shown = NoShown
  /\ offered = NoChoices

\* the commands, on_message and the sweep, interleaved at their awaits, with no further
\* on_ready
NextLoaded ==
  \/ Tick
  \/ \E c \in Channels : DeleteChannel(c)
  \/ \E u \in Users : SetStatus(u)
  \/ \E u \in Users, c \in Channels, t \in Times, perm \in BOOLEAN : RemindSet(u, c, t, perm)
  \/ RemindSetDenied
  \/ RemindSetInstall
  \/ RemindSetReplaced
  \/ \E u \in Users, c \in Channels : RemindClear(u, c)
  \/ RemindClearDone
  \/ SweepStart
  \/ \E outcome \in {"NotFound", "HTTPException"} : SweepFetchChannel(outcome)
  \/ SweepDeleteMany
  \/ \E outcome \in {"ok", "NotFound", "HTTPException"} : SweepFetch(outcome)
  \/ \E outcome \in {"ok", "NotFound", "HTTPException"} : SweepReply(outcome)
  \/ \E outcome \in {"ok", "HTTPException"} : SweepSend(outcome)
  \/ \E outcome \in {"ok", "HTTPException"} : SweepReact(outcome)
  \/ SweepUpdate
  \/ \E u \in Users, c \in Channels, pings, command \in BOOLEAN : OnMessage(u, c, pings, command)
  \/ \E outcome \in {"ok", "HTTPException"} : OnMessageReplied(outcome)
  \/ \E c \in Channels, shape \in EchoShapes : WebhookMessage(c, shape)
  \/ \E done \in DoneOrders : OnMessageWake(done)
  \/ OnMessageUpdated

SpecLoaded == InitLoaded /\ [][NextLoaded]_vars

\* no handler is suspended in the middle of its work
NoneSuspended == InFlight = 0

\* the reminder the one suspended handler works on
WorkedOn ==
  IF om.pc # "idle" THEN <<om.user, om.chan>>
  ELSE IF rs.pc # "idle" THEN <<rs.user, rs.chan>>
  ELSE IF rc.pc # "idle" THEN <<rc.user, rc.chan>>
  ELSE <<sweep.user, sweep.chan>>

\* after the step, the document of (u, c) and the ReminderInfo of (u, c) in the map are
\* both absent, or both there and equal field for field
Mirrored(u, c) ==
  IF mem'[c][u] = NoInfo \/ store'[<<u, c>>] = NoInfo THEN mem'[c][u] = store'[<<u, c>>]
  ELSE /\ mem'[c][u].cooldown_time = store'[<<u, c>>].cooldown_time
       /\ mem'[c][u].last_message_id = store'[<<u, c>>].last_message_id
       /\ mem'[c][u].notified_already = store'[<<u, c>>].notified_already

\* a handler's write to the store has been applied
Persisted == OnMessageUpdated \/ RemindSetReplaced \/ RemindClearDone \/ SweepUpdate

\* C30: the store mirrors the map: when the write of the only suspended handler (remind
\* set, remind clear, on_message or the sweep) has been applied and no handler is
\* suspended any more, no persistence call having failed, the document and the in-memory
\* ReminderInfo of the reminder it worked on are both absent or equal in cooldown_time,
\* last_message_id and notified_already.
C30_StoreMirrorsMemory ==
  [][(InFlight = 1 /\ NoneSuspended' /\ Persisted /\ WorkedOn \in Keys)
       => Mirrored(WorkedOn[1], WorkedOn[2])]_vars

(* ------------------------ claims on ownership ---------------------------- *)
\* the delete and the edit commands of both users, interleaved at the await of
\* Submission.name and at the modal
NextCommands ==
  \/ \E u \in Users, g \in Guilds \cup {NoGuild}, argument \in EditArguments, by \in Resolvers :
       delete(u, g, argument, by)
  \/ \E u \in Users, g \in Guilds, arguments \in EditArgumentLists : delete_many(u, g, arguments)
  \/ \E u \in Users, g \in Guilds : purge(u, g)
  \/ \E u \in Users, g \in Guilds, argument \in EditArguments : update(u, g, argument)
  \/ \E g \in Guilds, name \in EditNames, desc \in EditDescriptions :
       UpdateCharacterModal_on_submit(g, name, desc)
  \/ \E u \in Users, g \in Guilds, argument \in EditArguments, name \in EditNames :
       NameResolve(u, g, argument, name)
  \/ NameUpdate
  \/ \E u \in Users, g \in Guilds, argument \in EditArguments, desc \in EditDescriptions :
       description(u, g, argument, desc)

SpecCommands == InitEdit /\ [][NextCommands]_vars

\* the step leaves every document of the users other than u in the collection, unchanged
KeepsOthers(u) ==
  \A i \in DOMAIN characters :
     characters[i].user_id # u => \E j \in DOMAIN characters' : characters'[j] = characters[i]

ResolvesIn(u, g) ==
  \E argument \in EditArguments :
     \/ \E by \in Resolvers : delete(u, g, argument, by)
     \/ update(u, g, argument)
     \/ \E name \in EditNames : NameResolve(u, g, argument, name)
     \/ \E desc \in EditDescriptions : description(u, g, argument, desc)

\* the document is in the scope of user u in guild g
InScope(doc, u, g) == doc.user_id = u /\ ServerIs(doc, g)

LastInChannel(u, c) == mem[c][u] # NoInfo /\ mem[c][u].last_message_id = chanLast[c]

\* C33: the sweep never notifies a reminder whose last_message_id is the channel's current
\* last message id, however long ago its cooldown elapsed: it does not select such a
\* reminder, delivers no notification for it and leaves it Armed.
C33_LastMessageNeverNotified ==
  [][\A u \in Users, c \in Channels :
       LastInChannel(u, c) =>
         /\ ~(Selects /\ sweep'.user = u /\ sweep'.chan = c)
         /\ ~(Delivers /\ sweep.live /\ sweep.user = u /\ sweep.chan = c)
         /\ ~FiresInMemory(u, c)]_vars

(* ------------------ on_message on drawn webhook messages ------------------ *)
\* the most webhook messages seen during one wait
MaxSeen == MaxEchoes + 1

\* what the webhook messages seen can look like: the shapes above, and a text that is
\* similar to the original without being contained in it
SeenShapes == EchoShapes \cup {[ratio |-> 96, contained |-> FALSE, files |-> FALSE]}

\* the webhook messages of these shapes, with the ids that follow the id first
Seen(shapes, first) ==
  [i \in DOMAIN shapes |-> [id |-> first + i, ratio |-> shapes[i].ratio,
                            contained |-> shapes[i].contained, files |-> shapes[i].files]]

\* the state in which on_message is at its asyncio.wait (lines 174-191) for a message of
\* user 1, who has a reminder in the channel, with the webhook messages recorded so far
InitEcho ==
  /\ now = 1
  /\ events = 1
  /\ chanState = [c \in Channels |-> "cached"]
  /\ offline = [u \in Users |-> FALSE]
  /\ \E fired \in BOOLEAN :
       store = [k \in Keys |-> IF k \in InitKeys
                               THEN [StoredDoc(k[1], k[2]) EXCEPT !.notified_already = fired]
                               ELSE NoInfo]
  /\ entries = AddKeys(<<>>, CursorOrder)
  /\ mem = [c \in Channels |-> [u \in Users |-> store[<<u, c>>]]]
  /\ \E c \in Channels, n \in 0..MaxSeen :
       \E shapes \in [1..n -> SeenShapes] :
          /\ msgCount = 1 + n
          /\ chanLast = [d \in Channels |-> IF d = c THEN time_snowflake(now) + 1 + n ELSE 0]
          /\ om = [OmIdle EXCEPT !.pc = "wait", !.live = TRUE, !.user = 1, !.chan = c,
                                 !.msg = time_snowflake(now) + 1,
                                 !.messages = Seen(shapes, time_snowflake(now) + 1)]
  /\ sweep = SweepIdle
  /\ rs = RsIdle
  /\ rc = RcIdle
  /\ delivered = [k \in Keys |-> FALSE]
  /\ characters = <<>>
  /\ oid = 0
  /\ charOutcome = NoOutcome
  /\ modal = NoModal
  /\ rn = RnIdle
  /\ shown = NoShown
  /\ offered = NoChoices

\* the wait ends and the handler runs to its end
NextEcho ==
  \/ \E done \in DoneOrders : OnMessageWake(done)
  \/ OnMessageUpdated

SpecEcho == InitEcho /\ [][NextEcho]_vars

(* ------------------------ claims on the proxy echo ------------------------ *)
\* the webhook messages that match the original
Echoes(messages) == {i \in DOMAIN messages : Matches(messages[i])}

\* the ids of the matching webhook messages that are closest to the original
Closest(messages) ==
  {messages[i].id : i \in {j \in Echoes(messages) :
                             \A k \in Echoes(messages) : messages[k].ratio <= messages[j].ratio}}

\* C34: when the wait of on_message ends, the message taken as the last message is the
\* closest-matching echo among the webhook messages seen (by similarity, containment or
\* attachment file names), the original message when none matches, and when the original
\* was edited during the wait the reminder is not updated at all.
C34_ClosestEchoOrOriginal ==
  [][\A done \in DoneOrders :
       OnMessageWake(done) =>
         IF \E i \in DOMAIN done : done[i] = "Edit"
         THEN om'.pc = "idle" /\ UNCHANGED mem
         ELSE (\E i \in DOMAIN done : done[i] = "Message") =>
                /\ om'.pc = "update_one"
                /\ mem'[om.chan][om.user].last_message_id = om'.aux
                /\ IF Echoes(om.messages) = {} THEN om'.aux = om.msg
                   ELSE om'.aux \in Closest(om.messages)]_vars

====
